---- MODULE Spec2Model ----
(***************************************************************************)
(* Model of the DistributedLedger node: the inventory / consensus engine   *)
(* (inventory.mjs), the proof-of-work hashing it shares with miner.mjs and *)
(* the overlay manager (network.mjs).                                      *)
(*                                                                         *)
(* Hashes are numbers: a SHA-256 hex digest is a fixed-width number, the   *)
(* JavaScript string order on digests is the numeric order, and "starts    *)
(* with 0000" is "is below a target".  Null stands for null / undefined /  *)
(* a missing field; "" and 0 are the other falsy values of the code.       *)
(***************************************************************************)
EXTENDS Integers, Sequences, FiniteSets, TLC

Null == 0 - 1

\* ------------------------------------------------------------------ bounds
MaxBlocks == 3
MaxPending == 1
\* peers held in the tables of the overlay, /ping requests in flight
MaxKnown == 3
MaxPings == 2
\* the two connection limits, both 4 in network.mjs, scaled down
MAX_INTERNAL_CONNECTIONS == 2
MAX_EXTERNAL_CONNECTIONS == 2

\* --------------------------------------------------------- program constants
InitialBalance == 100
ZeroHash == 0
HashSpace == 256
DifficultyTarget == 64
MaxIterations == 1000
RetryLimit == 3
PEER_TIMEOUT == 600000
\* the period of the propagatePeerList timer
PEER_LIST_INTERVAL == 45000

NodeIds == {"N1", "N2", "N3"}
Self == "N1"

\* ------------------------------------------------------------------ helpers
Range(s) == {s[i] : i \in 1..Len(s)}

\* JavaScript truthiness: of a string field (a node id), of a number field
TruthyStr(v) == v # ""
TruthyNum(v) == v # 0

MapGet(m, k, dflt) == IF k \in DOMAIN m THEN m[k] ELSE dflt

MapSet(m, k, v) == [x \in (DOMAIN m) \cup {k} |-> IF x = k THEN v ELSE m[x]]

RECURSIVE SeqSum(_)
SeqSum(s) == IF s = <<>> THEN 0 ELSE Head(s) + SeqSum(Tail(s))

RECURSIVE SumOver(_, _)
SumOver(f, S) ==
    IF S = {} THEN 0
    ELSE LET x == CHOOSE y \in S : TRUE IN f[x] + SumOver(f, S \ {x})

NodeCode(n) == IF n = "N1" THEN 1 ELSE IF n = "N2" THEN 2 ELSE IF n = "N3" THEN 3 ELSE 0

\* ------------------------------------------------------------------ hashing
\* sha256 of a serialized transaction: a function of all its fields
TxHash(tx) ==
    (7 * tx.id + 3 * NodeCode(tx.sender) + 5 * NodeCode(tx.receiver)
       + (IF tx.amount < 0 THEN 0 - tx.amount ELSE tx.amount)) % HashSpace

\* sha256 of the concatenation of two digests
PairHash(a, b) == (3 * a + 5 * b + 1) % HashSpace

RECURSIVE MerklePairs(_)
MerklePairs(hs) ==
    IF hs = <<>> THEN <<>>
    ELSE <<PairHash(hs[1], hs[2])>> \o MerklePairs(SubSeq(hs, 3, Len(hs)))

RECURSIVE MerkleReduce(_)
MerkleReduce(hs) ==
    IF Len(hs) <= 1 THEN hs[1]
    ELSE LET even == IF Len(hs) % 2 # 0 THEN Append(hs, hs[Len(hs)]) ELSE hs
         IN MerkleReduce(MerklePairs(even))

\* getMerkleRoot: "" (here 0) for no transactions
getMerkleRoot(txs) ==
    IF Len(txs) = 0 THEN 0
    ELSE MerkleReduce([i \in 1..Len(txs) |-> TxHash(txs[i])])

RECURSIVE TxsCode(_)
TxsCode(txs) ==
    IF txs = <<>> THEN 0 ELSE (TxHash(Head(txs)) + 3 * TxsCode(Tail(txs))) % HashSpace

\* calculateBlockHash: sha256(JSON(block without its hash field) + nonce)
calculateBlockHash(block) ==
    ( (IF block.isGenesis THEN 1 ELSE 0)
      + 3 * (block.previousHash + 1)
      + 5 * block.timestamp
      + 7 * NodeCode(block.creator)
      + 11 * block.merkleRoot
      + 13 * block.count
      + 19 * TxsCode(block.transactions)
      + 37 * block.nonce ) % HashSpace

MeetsDifficulty(h) == h < DifficultyTarget


\* ------------------------------------------------- InventoryManager (pure part)
\* The fields of an InventoryManager.  blocks and transactions are JavaScript
\* Maps: keyed, and iterated in insertion order, so they are sequences here.
EmptyInventory ==
    [ blocks         |-> <<>>,
      transactions   |-> <<>>,
      seenMessages   |-> {},
      balances       |-> <<>>,
      genesisCreated |-> FALSE,
      blockchainHead |-> Null,
      blockHeights   |-> <<>> ]

BlockKeys(blocks) == {blocks[i].hash : i \in 1..Len(blocks)}

\* Map.get on blocks, for a key that is present
getBlock(blocks, hash) ==
    blocks[CHOOSE i \in 1..Len(blocks) : blocks[i].hash = hash]

PendingIds(transactions) == {transactions[i].id : i \in 1..Len(transactions)}

RECURSIVE DeletePending(_, _)
DeletePending(transactions, id) ==
    IF transactions = <<>> THEN <<>>
    ELSE IF Head(transactions).id = id THEN Tail(transactions)
    ELSE <<Head(transactions)>> \o DeletePending(Tail(transactions), id)

\* Map.set on the pending pool: a new key goes last, an existing key keeps its place
SetPending(transactions, tx) ==
    IF tx.id \in PendingIds(transactions)
    THEN [i \in 1..Len(transactions) |->
            IF transactions[i].id = tx.id THEN tx ELSE transactions[i]]
    ELSE Append(transactions, tx)

\* the iteration with a pool that forgets a mined transaction altogether
ApplyTransactionForgetting(inv, tx) ==
    IF ~TruthyStr(tx.sender) \/ ~TruthyStr(tx.receiver) \/ ~TruthyNum(tx.amount) THEN inv
    ELSE LET senderBalance   == MapGet(inv.balances, tx.sender, 0)
             b1              == MapSet(inv.balances, tx.sender, senderBalance - tx.amount)
             receiverBalance == MapGet(b1, tx.receiver, 0)
             b2              == MapSet(b1, tx.receiver, receiverBalance + tx.amount)
         IN [inv EXCEPT !.balances = b2,
                        !.transactions = DeletePending(inv.transactions, tx.id),
                        !.seenMessages = inv.seenMessages \ {tx.id}]

\* one iteration of the loop of processBlockTransactions
ApplyTransaction(inv, tx) ==
    IF ~TruthyStr(tx.sender) \/ ~TruthyStr(tx.receiver) \/ ~TruthyNum(tx.amount) THEN inv
    ELSE LET senderBalance   == MapGet(inv.balances, tx.sender, 0)
             b1              == MapSet(inv.balances, tx.sender, senderBalance - tx.amount)
             receiverBalance == MapGet(b1, tx.receiver, 0)
             b2              == MapSet(b1, tx.receiver, receiverBalance + tx.amount)
         IN [inv EXCEPT !.balances = b2,
                        !.transactions =
                            IF TruthyNum(tx.id) /\ tx.id \in PendingIds(inv.transactions)
                            THEN DeletePending(inv.transactions, tx.id)
                            ELSE inv.transactions]

RECURSIVE processBlockTransactions(_, _)
processBlockTransactions(inv, transactions) ==
    IF transactions = <<>> THEN inv
    ELSE processBlockTransactions(ApplyTransaction(inv, Head(transactions)),
                                  Tail(transactions))

\* one iteration of the roll-back loop of handleChainReorganization: both
\* balances are read before either is written
RollbackTransaction(inv, tx) ==
    IF TruthyStr(tx.sender) /\ TruthyStr(tx.receiver) /\ TruthyNum(tx.amount)
    THEN LET senderBalance   == MapGet(inv.balances, tx.sender, 0)
             receiverBalance == MapGet(inv.balances, tx.receiver, 0)
             b1 == MapSet(inv.balances, tx.sender, senderBalance + tx.amount)
             b2 == MapSet(b1, tx.receiver, receiverBalance - tx.amount)
         IN [inv EXCEPT !.balances = b2]
    ELSE inv

RECURSIVE RollbackTransactions(_, _)
RollbackTransactions(inv, transactions) ==
    IF transactions = <<>> THEN inv
    ELSE RollbackTransactions(RollbackTransaction(inv, Head(transactions)),
                              Tail(transactions))

RECURSIVE ChainWalk(_, _, _, _)
ChainWalk(blocks, currentHash, maxIterations, chain) ==
    IF currentHash = Null \/ maxIterations <= 0 THEN chain
    ELSE IF currentHash \notin BlockKeys(blocks) THEN chain
    ELSE LET block == getBlock(blocks, currentHash)
         IN IF block.isGenesis THEN <<currentHash>> \o chain
            ELSE ChainWalk(blocks, block.previousHash, maxIterations - 1,
                           <<currentHash>> \o chain)

\* getChainToBlock: the hashes from the oldest reachable ancestor to blockHash
getChainToBlock(inv, blockHash) ==
    ChainWalk(inv.blocks, blockHash, MaxIterations, <<>>)

RECURSIVE CommonPrefix(_, _, _)
CommonPrefix(oldChain, newChain, i) ==
    IF i < Len(oldChain) /\ i < Len(newChain) /\ oldChain[i + 1] = newChain[i + 1]
    THEN CommonPrefix(oldChain, newChain, i + 1)
    ELSE i

Reverse(s) == [i \in 1..Len(s) |-> s[Len(s) + 1 - i]]

RECURSIVE RollbackBlocks(_, _)
RollbackBlocks(inv, hashes) ==
    IF hashes = <<>> THEN inv
    ELSE RollbackBlocks(
             IF Head(hashes) \in BlockKeys(inv.blocks)
             THEN RollbackTransactions(inv, getBlock(inv.blocks, Head(hashes)).transactions)
             ELSE inv,
             Tail(hashes))

RECURSIVE ApplyBlocks(_, _)
ApplyBlocks(inv, hashes) ==
    IF hashes = <<>> THEN inv
    ELSE ApplyBlocks(
             IF Head(hashes) \in BlockKeys(inv.blocks)
             THEN processBlockTransactions(inv, getBlock(inv.blocks, Head(hashes)).transactions)
             ELSE inv,
             Tail(hashes))

handleChainReorganization(inv, oldHead, newHead) ==
    LET oldChain == getChainToBlock(inv, oldHead)
        newChain == getChainToBlock(inv, newHead)
        commonAncestorIndex == CommonPrefix(oldChain, newChain, 0)
        blocksToRollback ==
            Reverse(SubSeq(oldChain, commonAncestorIndex + 1, Len(oldChain)))
        blocksToApply == SubSeq(newChain, commonAncestorIndex + 1, Len(newChain))
    IN ApplyBlocks(RollbackBlocks(inv, blocksToRollback), blocksToApply)

\* rule 2 with the comparison turned round
LargerHashWins(newBlockHash, headHash) == newBlockHash > headHash

\* rule 2 of applyConsensusRules: at equal height the smaller hash wins
SmallerHashWins(newBlockHash, headHash) == newBlockHash < headHash

\* applyConsensusRules: the inventory after the consensus decision on a new block
applyConsensusRules(inv, newBlockHash) ==
    IF inv.blockchainHead = Null
    THEN [inv EXCEPT !.blockchainHead = newBlockHash]
    ELSE LET currentHeadHeight ==
                 MapGet(inv.blockHeights, inv.blockchainHead, 0)
             newBlockHeight ==
                 MapGet(inv.blockHeights, newBlockHash, 0)
         IN IF newBlockHeight > currentHeadHeight
               \/ (newBlockHeight = currentHeadHeight
                   /\ SmallerHashWins(newBlockHash, inv.blockchainHead))
            THEN [handleChainReorganization(inv, inv.blockchainHead, newBlockHash)
                     EXCEPT !.blockchainHead = newBlockHash]
            ELSE inv

\* validateBlockStructure: only the proof of work decides; an unknown parent
\* is accepted, the Merkle root is not recomputed
validateBlockStructure(inv, block, calculatedHash) ==
    MeetsDifficulty(calculatedHash)

RECURSIVE ValidateTxLoop(_, _)
ValidateTxLoop(tempBalances, transactions) ==
    IF transactions = <<>> THEN TRUE
    ELSE LET tx == Head(transactions)
         IN IF ~TruthyNum(tx.id) \/ ~TruthyStr(tx.sender) \/ ~TruthyStr(tx.receiver)
               \/ ~TruthyNum(tx.amount) \/ tx.amount <= 0
            THEN FALSE
            ELSE LET senderBalance == MapGet(tempBalances, tx.sender, 0)
                 IN IF senderBalance < tx.amount THEN FALSE
                    ELSE LET t1 == MapSet(tempBalances, tx.sender, senderBalance - tx.amount)
                             receiverBalance == MapGet(t1, tx.receiver, 0)
                             t2 == MapSet(t1, tx.receiver, receiverBalance + tx.amount)
                         IN ValidateTxLoop(t2, Tail(transactions))

\* every transaction checked on its own against the balances as they are
validateEachAlone(inv, transactions) ==
    \A i \in 1..Len(transactions) :
        LET tx == transactions[i]
        IN /\ TruthyNum(tx.id) /\ TruthyStr(tx.sender) /\ TruthyStr(tx.receiver)
           /\ TruthyNum(tx.amount) /\ tx.amount > 0
           /\ MapGet(inv.balances, tx.sender, 0) >= tx.amount

validateBlockTransactions(inv, transactions) ==
    ValidateTxLoop(inv.balances, transactions)

\* the height addBlock assigns: get(previousHash) || -1, then 1 for "unknown"
AssignedHeight(inv, block) ==
    LET h == MapGet(inv.blockHeights, block.previousHash, 0)
        prevBlockHeight == IF TruthyNum(h) THEN h ELSE 0 - 1
    IN IF prevBlockHeight = 0 - 1 THEN 1 ELSE prevBlockHeight + 1

\* the genesis branch of addBlock
AddGenesis(inv, block, blockHash) ==
    LET blockWithHash == [block EXCEPT !.hash = blockHash]
    IN [inv EXCEPT !.blocks = Append(inv.blocks, blockWithHash),
                   !.seenMessages = inv.seenMessages \cup {blockHash},
                   !.genesisCreated = TRUE,
                   !.blockHeights = MapSet(inv.blockHeights, blockHash, 0),
                   !.blockchainHead = blockHash,
                   !.balances = IF TruthyStr(block.creator)
                                THEN MapSet(inv.balances, block.creator, InitialBalance)
                                ELSE inv.balances]

\* the regular branch without the line that records the hash as seen
AddRegularUnmarked(inv, block, blockHash) ==
    LET blockWithHash == [block EXCEPT !.hash = blockHash]
        stored == [inv EXCEPT !.blocks = Append(inv.blocks, blockWithHash)]
        heighted == [stored EXCEPT !.blockHeights =
                        MapSet(stored.blockHeights, blockHash, AssignedHeight(stored, block))]
        processed == processBlockTransactions(heighted, block.transactions)
    IN applyConsensusRules(processed, blockHash)

\* the regular branch of addBlock, after both validations passed
AddRegular(inv, block, blockHash) ==
    LET blockWithHash == [block EXCEPT !.hash = blockHash]
        stored == [inv EXCEPT !.blocks = Append(inv.blocks, blockWithHash),
                              !.seenMessages = inv.seenMessages \cup {blockHash}]
        heighted == [stored EXCEPT !.blockHeights =
                        MapSet(stored.blockHeights, blockHash, AssignedHeight(stored, block))]
        processed == processBlockTransactions(heighted, block.transactions)
    IN applyConsensusRules(processed, blockHash)

\* the identity addBlock gives a block: its declared hash, else the computed one
IdentityHash(block, calculatedHash) ==
    IF block.hash # Null THEN block.hash ELSE calculatedHash

\* addBlock without the test of seenMessages at its top
addBlockSeenUnchecked(inv, block) ==
    LET calculatedHash == calculateBlockHash(block)
        blockHash == IdentityHash(block, calculatedHash)
        unchanged == [inv |-> inv, result |-> FALSE, flooded |-> Null]
    IN IF block.isGenesis
       THEN [inv |-> AddGenesis(inv, block, blockHash), result |-> TRUE,
             flooded |-> blockHash]
       ELSE IF ~validateBlockStructure(inv, block, calculatedHash) THEN unchanged
       ELSE IF ~validateBlockTransactions(inv, block.transactions) THEN unchanged
       ELSE [inv |-> AddRegular(inv, block, blockHash), result |-> TRUE,
             flooded |-> blockHash]

\* addBlock: the new inventory, the boolean returned, the block flooded (or Null)
addBlock(inv, block) ==
    LET calculatedHash == calculateBlockHash(block)
        blockHash == IdentityHash(block, calculatedHash)
        unchanged == [inv |-> inv, result |-> FALSE, flooded |-> Null]
    IN IF blockHash \in inv.seenMessages \/ calculatedHash \in inv.seenMessages
       THEN unchanged
       ELSE IF block.isGenesis
       THEN [inv |-> AddGenesis(inv, block, blockHash), result |-> TRUE,
             flooded |-> blockHash]
       ELSE IF ~validateBlockStructure(inv, block, calculatedHash) THEN unchanged
       ELSE IF ~validateBlockTransactions(inv, block.transactions) THEN unchanged
       ELSE [inv |-> AddRegular(inv, block, blockHash), result |-> TRUE,
             flooded |-> blockHash]

\* validateTransaction without the comparison with the sender's balance
validateFieldsOnly(inv, tx) ==
    ~(~TruthyStr(tx.sender) \/ ~TruthyStr(tx.receiver) \/ ~TruthyNum(tx.amount)
        \/ tx.amount <= 0)

\* validateTransaction with the balance the pending payments would leave
validateAgainstPending(inv, tx) ==
    IF ~TruthyStr(tx.sender) \/ ~TruthyStr(tx.receiver) \/ ~TruthyNum(tx.amount) \/ tx.amount <= 0
    THEN FALSE
    ELSE LET projected == processBlockTransactions(inv, inv.transactions)
         IN MapGet(projected.balances, tx.sender, 0) >= tx.amount

validateTransaction(inv, tx) ==
    IF ~TruthyStr(tx.sender) \/ ~TruthyStr(tx.receiver) \/ ~TruthyNum(tx.amount) \/ tx.amount <= 0
    THEN FALSE
    ELSE MapGet(inv.balances, tx.sender, 0) >= tx.amount

\* addTransaction without the line that records the id as seen
addTransactionUnmarked(inv, tx) ==
    IF tx.id \in inv.seenMessages \/ ~validateTransaction(inv, tx)
    THEN [inv |-> inv, result |-> FALSE, flooded |-> Null]
    ELSE [inv |-> [inv EXCEPT !.transactions = SetPending(inv.transactions, tx)],
          result |-> TRUE, flooded |-> tx.id]

addTransaction(inv, tx) ==
    IF tx.id \in inv.seenMessages \/ ~validateTransaction(inv, tx)
    THEN [inv |-> inv, result |-> FALSE, flooded |-> Null]
    ELSE [inv |-> [inv EXCEPT !.transactions = SetPending(inv.transactions, tx),
                              !.seenMessages = inv.seenMessages \cup {tx.id}],
          result |-> TRUE, flooded |-> tx.id]

\* the status POST /inv and POST /block answer with
StatusOf(added) == IF added THEN "added" ELSE "already_exists"

\* the block createGenesisBlock builds (timestamp is the wall clock)
GenesisBlockOf(nodeId, timestamp) ==
    LET genesisBlock == [ isGenesis |-> TRUE, previousHash |-> ZeroHash,
                          timestamp |-> timestamp, nonce |-> 0, creator |-> nodeId,
                          merkleRoot |-> 0, count |-> 0, transactions |-> <<>>,
                          hash |-> Null ]
    IN [genesisBlock EXCEPT !.hash = calculateBlockHash(genesisBlock)]

\* createGenesisBlock without its guard
createGenesisUnguarded(inv, nodeId, timestamp) ==
    LET genesisBlock == GenesisBlockOf(nodeId, timestamp)
        genesisHash == genesisBlock.hash
    IN [inv |-> [inv EXCEPT !.blocks = Append(inv.blocks, genesisBlock),
                            !.seenMessages = inv.seenMessages \cup {genesisHash},
                            !.genesisCreated = TRUE,
                            !.blockHeights = MapSet(inv.blockHeights, genesisHash, 0),
                            !.blockchainHead = genesisHash,
                            !.balances = MapSet(inv.balances, nodeId, InitialBalance)],
        result |-> TRUE, flooded |-> Null]

createGenesisBlock(inv, nodeId, timestamp) ==
    IF inv.genesisCreated \/ Len(inv.blocks) > 0
    THEN [inv |-> inv, result |-> FALSE, flooded |-> Null]
    ELSE LET genesisBlock == GenesisBlockOf(nodeId, timestamp)
             genesisHash == genesisBlock.hash
         IN [inv |-> [inv EXCEPT !.blocks = Append(inv.blocks, genesisBlock),
                                 !.seenMessages = inv.seenMessages \cup {genesisHash},
                                 !.genesisCreated = TRUE,
                                 !.blockHeights = MapSet(inv.blockHeights, genesisHash, 0),
                                 !.blockchainHead = genesisHash,
                                 !.balances = MapSet(inv.balances, nodeId, InitialBalance)],
             result |-> TRUE, flooded |-> Null]

\* syncInventoryWithPeers, transactions of one peer answer: stored unvalidated
RECURSIVE SyncTransactions(_, _)
SyncTransactions(inv, txs) ==
    IF txs = <<>> THEN inv
    ELSE LET tx == Head(txs)
             next == IF TruthyNum(tx.id) /\ tx.id \notin inv.seenMessages
                     THEN [inv EXCEPT !.transactions = SetPending(inv.transactions, tx),
                                      !.seenMessages = inv.seenMessages \cup {tx.id}]
                     ELSE inv
         IN SyncTransactions(next, Tail(txs))

\* syncInventoryWithPeers, blocks of one /getblocks answer: stored unvalidated,
\* without height, balances or consensus
RECURSIVE SyncBlocks(_, _)
SyncBlocks(inv, bs) ==
    IF bs = <<>> THEN inv
    ELSE LET block == Head(bs)
             next == IF block.hash \notin inv.seenMessages
                     THEN [inv EXCEPT !.blocks = Append(inv.blocks, block),
                                      !.seenMessages = inv.seenMessages \cup {block.hash}]
                     ELSE inv
         IN SyncBlocks(next, Tail(bs))

getMainChain(inv) ==
    IF inv.blockchainHead = Null THEN <<>>
    ELSE getChainToBlock(inv, inv.blockchainHead)


\* ----------------------------------------------------------------- the miner
\* mineBlock's proof-of-work loop: nonce = 1, 2, ... until the hash meets the
\* difficulty; the hash is then stamped into the block
Candidate(previousHash, creator, timestamp, txs, nonce) ==
    [ isGenesis |-> FALSE, previousHash |-> previousHash, timestamp |-> timestamp,
      nonce |-> nonce, creator |-> creator, merkleRoot |-> getMerkleRoot(txs),
      count |-> Len(txs), transactions |-> txs, hash |-> Null ]

MinedBlock(previousHash, creator, timestamp, txs) ==
    LET Hit(n) == MeetsDifficulty(
                      calculateBlockHash(Candidate(previousHash, creator, timestamp, txs, n)))
        nonce == CHOOSE n \in 1..HashSpace : Hit(n) /\ \A m \in 1..(n - 1) : ~Hit(m)
        block == Candidate(previousHash, creator, timestamp, txs, nonce)
    IN [block EXCEPT !.hash = calculateBlockHash(block)]

\* ------------------------------------------------------ inputs of the model
Tx(id, sender, receiver, amount) ==
    [id |-> id, sender |-> sender, receiver |-> receiver, amount |-> amount]

T1 == Tx(101, "N1", "N2", 30)
T2 == Tx(102, "N1", "N3", 20)
T3 == Tx(103, "N1", "N2", 10)
\* more than the genesis endowment
T5 == Tx(105, "N1", "N3", 200)
\* no amount
T6 == Tx(106, "N2", "N1", 0)

\* a negative amount
T7 == Tx(107, "N2", "N1", 0 - 5)
\* two payments N1 can afford one by one, not one after the other
T8 == Tx(108, "N1", "N2", 60)
T9 == Tx(109, "N1", "N3", 60)

\* no id
T4 == Tx(0, "N1", "N2", 5)
\* a payment of N1 to itself
T10 == Tx(110, "N1", "N1", 10)

TxPool == {T1, T2, T3, T4, T5, T6}

\* two genesis blocks (two nodes started standalone), a chain A1 <- A2 on the
\* first, and B1, a sibling of A1 carrying other transactions
G1 == GenesisBlockOf("N1", 1)
G2 == GenesisBlockOf("N2", 2)
A1 == MinedBlock(G1.hash, "N1", 3, <<T1>>)
A2 == MinedBlock(A1.hash, "N1", 4, <<T3>>)
B1 == MinedBlock(G1.hash, "N2", 3, <<T2>>)
\* a mined block with a transaction the sender cannot pay
X1 == MinedBlock(G1.hash, "N3", 6, <<T5>>)
\* a mined block whose declared hash was altered afterwards
M1 == [MinedBlock(G1.hash, "N3", 5, <<T2>>) EXCEPT !.hash = 200]
\* a block stamped with its true hash, which misses the difficulty
P1 == LET c == Candidate(G1.hash, "N3", 7, <<T2>>, 1)
      IN [c EXCEPT !.hash = calculateBlockHash(c)]

\* a mined block whose second transaction overdraws what the first one left
Y1 == MinedBlock(G1.hash, "N3", 8, <<T8, T9>>)
\* a mined block with a negative amount
Z1 == MinedBlock(G1.hash, "N3", 9, <<T7>>)

\* a block carrying T2 under the Merkle root of T1, mined with that root
R1 == LET Forged(n) == [Candidate(G1.hash, "N3", 11, <<T2>>, n)
                           EXCEPT !.merkleRoot = getMerkleRoot(<<T1>>)]
          Hit(n) == MeetsDifficulty(calculateBlockHash(Forged(n)))
          nonce == CHOOSE n \in 1..HashSpace : Hit(n) /\ \A m \in 1..(n - 1) : ~Hit(m)
      IN [Forged(nonce) EXCEPT !.hash = calculateBlockHash(Forged(nonce))]

BlockPool == {G1, G2, A1, A2, B1, X1, M1, P1, Y1, Z1, R1}

\* the transactions a peer can list in one /inventory answer
PeerTxAnswers == {<<tx>> : tx \in TxPool} \cup {<<T1, T2>>}

\* the blocks a peer can return for one /inventory answer
PeerBlockAnswers == {<<b>> : b \in BlockPool} \cup {<<G1, A1>>, <<A1, P1>>}

\* ------------------------------------------------ the overlay (network.mjs)
\* peers of the node's own group and of other groups
InternalPeers == {"N2", "N3", "N4"}
ExternalPeers == {"E1", "E2", "E3"}
PeerIds == InternalPeers \cup ExternalPeers

\* nodeId.charAt(0)
determineGroup(nodeId) ==
    IF nodeId \in InternalPeers \cup {Self} THEN "N" ELSE "E"

MapDelete(m, k) == [x \in (DOMAIN m) \ {k} |-> m[x]]

\* a retry counter, kept exact up to the largest value the code compares it to
Bump(retries) == IF retries > RetryLimit THEN retries ELSE retries + 1

\* nodes maps a peer id to [retries, lastSeen], activeConnections maps a peer
\* id to [lastSeen, retries], a record of its own (tryEstablishConnection
\* copies the nodes record); lastSeen is held as the number of rounds of
\* propagatePeerList gone by since the stamp was set.  lastSeen of the nodes
\* records is read by cleanupPeers and by the candidate filter of
\* tryReplaceDisconnectedPeer: the runs that follow the clock (SpecAge) age
\* these stamps, the other runs leave them alone and hand the two readers the
\* records older than PEER_TIMEOUT, any of them; pings counts the /ping
\* requests in flight per peer; replacing holds the candidates a replacement
\* search is waiting for; down holds the peers that have stopped answering
\* (the world around the node, for the runs in which a peer is lost for good);
\* exchange is the closure of startPeerExchange (for the runs that follow its
\* rounds)

\* no round of startPeerExchange is running and no tick has fired.  rounds
\* counts the bodies of the timer callback that are past the guard and have
\* not reached the end of their finally block; toAsk holds the peers of the
\* round's snapshot that the loop has not reached yet; tick is what the last
\* tick did
IdleExchange ==
    [exchangeInProgress |-> FALSE, rounds |-> 0, toAsk |-> {},
     needMoreInternalPeers |-> FALSE, needMoreExternalPeers |-> FALSE,
     tick |-> "none"]

EmptyOverlay ==
    [nodes |-> <<>>, activeConnections |-> <<>>, pings |-> <<>>, replacing |-> {},
     down |-> {}, exchange |-> IdleExchange]

InternalOf(ids) == {p \in ids : determineGroup(p) = determineGroup(Self)}

ExternalOf(ids) == {p \in ids : determineGroup(p) # determineGroup(Self)}

\* an upper bound of Date.now() - lastSeen: the next round is yet to come
Elapsed(lastSeen) == (lastSeen + 1) * PEER_LIST_INTERVAL

getActivePeers(net) ==
    {p \in DOMAIN net.activeConnections :
        Elapsed(net.activeConnections[p].lastSeen) < PEER_TIMEOUT}

LimitReached(ids, peerId) ==
    \/ /\ determineGroup(peerId) = determineGroup(Self)
       /\ Cardinality(InternalOf(ids)) >= MAX_INTERNAL_CONNECTIONS
    \/ /\ determineGroup(peerId) # determineGroup(Self)
       /\ Cardinality(ExternalOf(ids)) >= MAX_EXTERNAL_CONNECTIONS

BothLimitsReached(ids) ==
    /\ Cardinality(InternalOf(ids)) >= MAX_INTERNAL_CONNECTIONS
    /\ Cardinality(ExternalOf(ids)) >= MAX_EXTERNAL_CONNECTIONS

removePeer(net, peerId) ==
    [net EXCEPT !.nodes = MapDelete(@, peerId),
                !.activeConnections = MapDelete(@, peerId)]

\* tryEstablishConnection up to its await: the limits, the refresh of a
\* connection already held, the /ping request sent
tryEstablishConnection(net, peerId) ==
    IF LimitReached(getActivePeers(net), peerId) THEN net
    ELSE IF peerId \in DOMAIN net.activeConnections
         THEN [net EXCEPT !.activeConnections[peerId].lastSeen = 0]
         ELSE [net EXCEPT !.pings = MapSet(@, peerId, MapGet(@, peerId, 0) + 1)]

NoFinalCheck(ids, peerId) == FALSE

\* the check made once the /ping answer is in
FinalLimitReached(ids, peerId) == LimitReached(ids, peerId)

\* tryEstablishConnection from the answer of /ping on: "ok", "refused" (an
\* HTTP error status) or "failed" (the request threw)
PingAnswered(net, peerId, outcome) ==
    LET left == net.pings[peerId] - 1
        landed == [net EXCEPT !.pings = IF left = 0 THEN MapDelete(@, peerId)
                                        ELSE MapSet(@, peerId, left)]
        known == peerId \in DOMAIN landed.nodes
    IN IF outcome = "ok"
       THEN IF FinalLimitReached(getActivePeers(landed), peerId) THEN landed
            ELSE [landed EXCEPT !.activeConnections =
                     MapSet(@, peerId,
                            [lastSeen |-> 0,
                             retries |-> IF known THEN landed.nodes[peerId].retries
                                         ELSE 0])]
       ELSE IF outcome = "failed" /\ known
            THEN [landed EXCEPT !.nodes[peerId].retries = Bump(@)]
            ELSE landed

addPeer(net, nodeId) ==
    IF nodeId = Self THEN net
    ELSE IF nodeId \in DOMAIN net.nodes
         THEN [net EXCEPT !.nodes[nodeId].lastSeen = 0]
         ELSE LET added == [net EXCEPT !.nodes =
                               MapSet(@, nodeId, [retries |-> 0, lastSeen |-> 0])]
              IN IF ~LimitReached(DOMAIN added.activeConnections, nodeId)
                 THEN tryEstablishConnection(added, nodeId)
                 ELSE added

\* bootstrap: the peers listed by a bootstrap node, until both limits are met
RECURSIVE BootstrapPeers(_, _)
BootstrapPeers(net, peers) ==
    IF peers = <<>> \/ BothLimitsReached(getActivePeers(net)) THEN net
    ELSE BootstrapPeers(addPeer(net, Head(peers)), Tail(peers))

\* bootstrap, from the answers of /register on
bootstrap(net, responder, peers) ==
    LET first == addPeer(net, responder)
    IN IF BothLimitsReached(getActivePeers(first)) THEN first
       ELSE BootstrapPeers(first, peers)

\* handleSync: the listed peers that are not known yet
RECURSIVE handleSync(_, _)
handleSync(net, peers) ==
    IF peers = <<>> THEN net
    ELSE handleSync(IF Head(peers) \notin DOMAIN net.nodes
                    THEN addPeer(net, Head(peers)) ELSE net,
                    Tail(peers))

\* startPeerExchange: the internal peers of a /peers answer
RECURSIVE ExchangeInternal(_, _)
ExchangeInternal(net, peers) ==
    IF peers = <<>> THEN net
    ELSE IF Cardinality(InternalOf(getActivePeers(net))) >= MAX_INTERNAL_CONNECTIONS
         THEN net
         ELSE ExchangeInternal(addPeer(net, Head(peers)), Tail(peers))

\* startPeerExchange: the external peers of a /peers answer
RECURSIVE ExchangeExternal(_, _)
ExchangeExternal(net, peers) ==
    IF peers = <<>> THEN net
    ELSE IF Cardinality(ExternalOf(getActivePeers(net))) >= MAX_EXTERNAL_CONNECTIONS
         THEN net
         ELSE ExchangeExternal(addPeer(net, Head(peers)), Tail(peers))

IsInternal(p) == determineGroup(p) = determineGroup(Self)

IsExternal(p) == determineGroup(p) # determineGroup(Self)

\* startPeerExchange: a peer answered /peers
ExchangeAnswered(net, peer, remotePeers, needMoreInternalPeers, needMoreExternalPeers) ==
    LET seen == IF peer \in DOMAIN net.activeConnections
                THEN [net EXCEPT !.activeConnections[peer] =
                                     [lastSeen |-> 0, retries |-> 0]]
                ELSE net
        internalPeers == SelectSeq(remotePeers, IsInternal)
        externalPeers == SelectSeq(remotePeers, IsExternal)
        afterInternal == IF needMoreInternalPeers /\ internalPeers # <<>>
                         THEN ExchangeInternal(seen, internalPeers) ELSE seen
    IN IF needMoreExternalPeers /\ externalPeers # <<>>
       THEN ExchangeExternal(afterInternal, externalPeers) ELSE afterInternal

\* the peers tryReplaceDisconnectedPeer may turn to
ReplacementCandidates(net, isInternal) ==
    {p \in DOMAIN net.nodes :
        /\ p \notin DOMAIN net.activeConnections
        /\ net.nodes[p].retries < RetryLimit
        /\ IsInternal(p) = isInternal}

\* tryReplaceDisconnectedPeer turning to a candidate, up to the await: with
\* the limit met every candidate is turned down at once and the search ends
tryReplaceDisconnectedPeer(net, candidates, candidate) ==
    IF candidate \in candidates /\ ~LimitReached(getActivePeers(net), candidate)
    THEN [tryEstablishConnection(net, candidate) EXCEPT
             !.replacing = @ \cup {candidate}]
    ELSE net

\* the candidate a search turns to: any of them, the list being shuffled, or
\* none, all being older than PEER_TIMEOUT
CandidateChoice(candidates) == candidates \cup {Self}

\* the candidates left to a search whose attempt at peerId came to nothing
RemainingCandidates(net, peerId) ==
    ReplacementCandidates(net, IsInternal(peerId)) \ {peerId}

\* tryReplaceDisconnectedPeer from the answer to its /ping on: done once
\* connected, on to the next candidate otherwise
ReplacementAnswered(net, peerId, outcome, candidate) ==
    LET connected == /\ outcome = "ok"
                     /\ ~FinalLimitReached(getActivePeers(net), peerId)
        answered == [PingAnswered(net, peerId, outcome) EXCEPT
                        !.replacing = @ \ {peerId}]
    IN IF connected THEN answered
       ELSE tryReplaceDisconnectedPeer(answered,
                                       RemainingCandidates(answered, peerId),
                                       candidate)

\* startPeerExchange: the request to a peer threw
ExchangeFailed(net, peer, candidate) ==
    IF peer \notin DOMAIN net.activeConnections THEN net
    ELSE LET retries == Bump(net.activeConnections[peer].retries)
         IN IF retries > RetryLimit
            THEN tryReplaceDisconnectedPeer(
                     removePeer(net, peer),
                     ReplacementCandidates(removePeer(net, peer), IsInternal(peer)),
                     candidate)
            ELSE [net EXCEPT !.activeConnections[peer].retries = retries]

\* propagateToActivePeers: the outcome of the request to one peer
SyncDelivered(net, peer, ok) ==
    IF ok THEN [net EXCEPT !.activeConnections[peer].lastSeen = 0]
    ELSE LET retries == Bump(net.activeConnections[peer].retries)
         IN IF retries > RetryLimit THEN removePeer(net, peer)
            ELSE [net EXCEPT !.activeConnections[peer].retries = retries]

\* propagatePeerList: the outcome of the request to one peer
PeerListDelivered(net, peer, ok) ==
    IF peer \notin DOMAIN net.activeConnections THEN net
    ELSE IF ok THEN [net EXCEPT !.activeConnections[peer] =
                                    [lastSeen |-> 0, retries |-> 0]]
    ELSE LET retries == Bump(net.activeConnections[peer].retries)
         IN IF retries >= RetryLimit THEN removePeer(net, peer)
            ELSE [net EXCEPT !.activeConnections[peer] =
                                 [lastSeen |-> @.lastSeen + 1, retries |-> retries]]

\* propagatePeerList: every active peer is sent the list
RECURSIVE propagatePeerList(_, _, _)
propagatePeerList(net, peers, failed) ==
    IF peers = {} THEN net
    ELSE LET p == CHOOSE q \in peers : TRUE
         IN propagatePeerList(PeerListDelivered(net, p, p \notin failed),
                              peers \ {p}, failed)

\* cleanupPeers, timedOut being the records older than PEER_TIMEOUT
RECURSIVE cleanupPeers(_, _)
cleanupPeers(net, timedOut) ==
    IF timedOut = {} THEN net
    ELSE LET id == CHOOSE q \in timedOut : TRUE
         IN cleanupPeers(removePeer(net, id), timedOut \ {id})

\* propagateBlock, propagateTransaction: the outcome of the request to one
\* peer.  The list of failed peers is read before any request has ended, so
\* the retry after 5 s, and the removal it would make, never run.
PropagationAnswered(net, peer, ok) ==
    IF peer \notin DOMAIN net.activeConnections THEN net
    ELSE IF ok THEN [net EXCEPT !.activeConnections[peer] =
                                    [lastSeen |-> 0, retries |-> 0]]
    ELSE [net EXCEPT !.activeConnections[peer].retries = Bump(@)]

\* syncInventoryWithPeers: the outcome of the /inventory request to one peer
InventorySyncAnswered(net, peer, outcome) ==
    IF peer \notin DOMAIN net.activeConnections THEN net
    ELSE IF outcome = "ok" THEN [net EXCEPT !.activeConnections[peer] =
                                                [lastSeen |-> 0, retries |-> 0]]
    ELSE LET retries == Bump(net.activeConnections[peer].retries)
         IN IF outcome = "failed" /\ retries >= RetryLimit THEN removePeer(net, peer)
            ELSE [net EXCEPT !.activeConnections[peer].retries = retries]

PingsInFlight(net) == SumOver(net.pings, DOMAIN net.pings)

\* --------------------------------------------------------------- the node
\* inventory, network: the node N1; last: the call it served last;
\* remote: the inventory of a second node, N2; link: the connection N1 -> N2
VARIABLES inventory, last, network, remote, link

vars == <<inventory, last, network, remote, link>>

ledgerVars == <<inventory, last>>

netVars == <<network>>

pairVars == <<remote, link>>

\* N2 is not yet an active peer of N1, no request to it is in flight
NoLink == [up |-> FALSE, inFlight |-> {}]

Init ==
    /\ inventory = EmptyInventory
    /\ last = [op |-> "init", id |-> Null, ok |-> FALSE]
    /\ network = EmptyOverlay
    /\ remote = EmptyInventory
    /\ link = NoLink

\* index.mjs, server.listen callback of a node started without bootstrap peers
CreateGenesis ==
    \E timestamp \in {1} :
        LET r == createGenesisBlock(inventory, Self, timestamp)
        IN /\ inventory' = r.inv
           /\ last' = [op |-> "createGenesisBlock",
                       id |-> GenesisBlockOf(Self, timestamp).hash, ok |-> r.result]
           /\ UNCHANGED <<netVars, pairVars>>

\* POST /block (also the blocks of a bootstrap answer and of POST /sync)
AddBlock ==
    \E block \in BlockPool :
        LET r == addBlock(inventory, block)
        IN /\ Len(inventory.blocks) < MaxBlocks
           /\ inventory' = r.inv
           /\ last' = [op |-> "addBlock",
                       id |-> IdentityHash(block, calculateBlockHash(block)),
                       ok |-> r.result]
           /\ UNCHANGED <<netVars, pairVars>>

\* POST /inv (also the transactions of a bootstrap answer and of POST /sync)
AddTransaction ==
    \E tx \in TxPool :
        LET r == addTransaction(inventory, tx)
        IN /\ Len(inventory.transactions) < MaxPending
           /\ inventory' = r.inv
           /\ last' = [op |-> "addTransaction", id |-> tx.id, ok |-> r.result]
           /\ UNCHANGED <<netVars, pairVars>>

\* syncInventoryWithPeers: the transactions of a peer's /inventory answer
SyncPeerTransactions ==
    \E txs \in PeerTxAnswers :
        /\ Len(inventory.transactions) + Len(txs) <= MaxPending
        /\ inventory' = SyncTransactions(inventory, txs)
        /\ last' = [op |-> "syncTransactions", id |-> txs[Len(txs)].id, ok |-> TRUE]
        /\ UNCHANGED <<netVars, pairVars>>

\* syncInventoryWithPeers: the blocks of a peer's /getblocks?hash= answer
SyncPeerBlocks ==
    \E bs \in PeerBlockAnswers :
        /\ Len(inventory.blocks) + Len(bs) <= MaxBlocks
        /\ inventory' = SyncBlocks(inventory, bs)
        /\ last' = [op |-> "syncBlocks", id |-> bs[Len(bs)].hash, ok |-> TRUE]
        /\ UNCHANGED <<netVars, pairVars>>



Next ==
    \/ CreateGenesis
    \/ AddBlock
    \/ AddTransaction
    \/ SyncPeerTransactions
    \/ SyncPeerBlocks

Spec == Init /\ [][Next]_vars

\* ------------------------------------------------------------- the overlay
\* the peer lists a node can be sent: by a bootstrap node, in a /sync request,
\* in a /peers answer
PeerLists ==
    { <<>>, <<"N2", "N3">>, <<"E1", "E2">>, <<"N4", "E3", "N1">> }

\* the peers whose requests can fail
Unreliable == {"N2"}

NetStep(next) ==
    /\ Cardinality(DOMAIN next.nodes \cup DOMAIN next.activeConnections
                        \cup DOMAIN next.pings) <= MaxKnown
    /\ PingsInFlight(next) <= MaxPings
    /\ network' = next
    /\ UNCHANGED <<ledgerVars, pairVars>>

\* index.mjs, server.listen callback: the answers of the bootstrap peers
Bootstrap ==
    \E responder \in PeerIds, peers \in PeerLists :
        /\ NetStep(bootstrap(network, responder, peers))

\* POST /register
Register ==
    \E nodeId \in PeerIds \cup {Self} :
        /\ NetStep(addPeer(network, nodeId))

\* POST /sync
HandleSync ==
    \E peers \in PeerLists :
        /\ NetStep(handleSync(network, peers))

\* a /ping request of tryEstablishConnection is answered
PingAnswer ==
    \E peerId \in DOMAIN network.pings, outcome \in {"ok", "refused", "failed"} :
        /\ outcome = "ok" \/ peerId \in Unreliable
        /\ network.pings[peerId] > (IF peerId \in network.replacing THEN 1 ELSE 0)
        /\ NetStep(PingAnswered(network, peerId, outcome))
   
\* startPeerExchange: an active peer answers /peers; the two flags were taken
\* when the round began
ExchangeAnswer ==
    \E peer \in getActivePeers(network), remotePeers \in PeerLists,
       needMoreInternalPeers \in BOOLEAN, needMoreExternalPeers \in BOOLEAN :
        /\ needMoreInternalPeers \/ needMoreExternalPeers
        /\ network.activeConnections[peer].retries <= RetryLimit
        /\ NetStep(ExchangeAnswered(network, peer, remotePeers,
                                    needMoreInternalPeers, needMoreExternalPeers))

\* startPeerExchange: the /peers request to an active peer throws
ExchangeFailure ==
    \E peer \in getActivePeers(network) \cap Unreliable :
        \E candidate \in CandidateChoice(
                ReplacementCandidates(removePeer(network, peer), IsInternal(peer))) :
            /\ network.activeConnections[peer].retries <= RetryLimit
            /\ NetStep(ExchangeFailed(network, peer, candidate))
    
\* the /ping request of a replacement search is answered
ReplacementAnswer ==
    \E peerId \in network.replacing, outcome \in {"ok", "refused", "failed"} :
        \E candidate \in CandidateChoice(
                RemainingCandidates(PingAnswered(network, peerId, outcome), peerId)) :
            /\ outcome = "ok" \/ peerId \in Unreliable
            /\ NetStep(ReplacementAnswered(network, peerId, outcome, candidate))

\* propagateToActivePeers: the /sync request to one active peer ends
SyncDelivery ==
    \E peer \in getActivePeers(network), ok \in BOOLEAN :
        /\ ok \/ peer \in Unreliable
        /\ NetStep(SyncDelivered(network, peer, ok))

\* the 45 s timer of propagatePeerList; the requests end within their 5 s
PropagatePeerList ==
    \E failed \in SUBSET (getActivePeers(network) \cap Unreliable) :
        /\ NetStep(propagatePeerList(network, getActivePeers(network), failed))

\* the 30 s timer of cleanupPeers
CleanupPeers ==
    \E timedOut \in SUBSET (DOMAIN network.nodes) :
        /\ timedOut # {}
        /\ NetStep(cleanupPeers(network, timedOut))

NextNet ==
    \/ Bootstrap
    \/ Register
    \/ HandleSync
    \/ PingAnswer
    \/ ExchangeAnswer
    \/ ExchangeFailure
    \/ ReplacementAnswer
    \/ SyncDelivery
    \/ PropagatePeerList
    \/ CleanupPeers

SpecNet == Init /\ [][NextNet]_vars

\* ---------------------------------------------- the overlay, a peer is lost
\* The node learns its peers, one active peer stops answering for good and
\* the node goes on flooding and running its timers.  Every other peer answers
\* every request, and the run is shorter than PEER_TIMEOUT: no record is stale.

\* what a request to a peer ends with
Replies(peerId) ==
    IF peerId \in network.down THEN {"refused", "failed"} ELSE {"ok"}

\* the known peers a replacement search can connect to
Reachable(net, isInternal) == ReplacementCandidates(net, isInternal) \ net.down

\* the candidate a search turns to when none of the records is stale
FreshChoice(candidates) == IF candidates = {} THEN {Self} ELSE candidates

\* an active peer stops answering
PeerStops ==
    \E peer \in DOMAIN network.activeConnections :
        /\ network.down = {}
        /\ NetStep([network EXCEPT !.down = {peer}])

\* a /ping request of tryEstablishConnection ends
LostPingAnswer ==
    \E peerId \in DOMAIN network.pings :
        \E outcome \in Replies(peerId) :
            /\ network.pings[peerId] > (IF peerId \in network.replacing THEN 1 ELSE 0)
            /\ NetStep(PingAnswered(network, peerId, outcome))

\* propagateBlock, propagateTransaction: the request to the lost peer ends
LostPropagation ==
    \E peer \in getActivePeers(network) \cap network.down :
        /\ NetStep(PropagationAnswered(network, peer, FALSE))

\* syncInventoryWithPeers: the /inventory request to the lost peer ends
LostInventorySync ==
    \E peer \in getActivePeers(network) \cap network.down :
        \E outcome \in Replies(peer) :
            /\ NetStep(InventorySyncAnswered(network, peer, outcome))

\* propagateToActivePeers: the /sync request to the lost peer throws
LostSyncDelivery ==
    \E peer \in getActivePeers(network) \cap network.down :
        /\ NetStep(SyncDelivered(network, peer, FALSE))

\* the 45 s timer of propagatePeerList
LostPeerList ==
    /\ getActivePeers(network) \cap network.down # {}
    /\ NetStep(propagatePeerList(network, getActivePeers(network),
                                  getActivePeers(network) \cap network.down))

\* startPeerExchange: a peer that answers is asked for its peers
LostExchangeAnswer ==
    \E peer \in getActivePeers(network) \ network.down, remotePeers \in PeerLists,
       needMoreInternalPeers \in BOOLEAN, needMoreExternalPeers \in BOOLEAN :
        /\ network.down # {}
        /\ needMoreInternalPeers \/ needMoreExternalPeers
        /\ network.activeConnections[peer].retries <= RetryLimit
        /\ NetStep(ExchangeAnswered(network, peer, remotePeers,
                                    needMoreInternalPeers, needMoreExternalPeers))

\* startPeerExchange: the /peers request to the lost peer throws
LostExchangeFailure ==
    \E peer \in getActivePeers(network) \cap network.down :
        \E candidate \in FreshChoice(
                ReplacementCandidates(removePeer(network, peer), IsInternal(peer))) :
            /\ network.activeConnections[peer].retries <= RetryLimit
            /\ NetStep(ExchangeFailed(network, peer, candidate))

\* the /ping request of a replacement search ends
LostReplacementAnswer ==
    \E peerId \in network.replacing :
        \E outcome \in Replies(peerId) :
            \E candidate \in FreshChoice(
                    RemainingCandidates(PingAnswered(network, peerId, outcome), peerId)) :
                /\ NetStep(ReplacementAnswered(network, peerId, outcome, candidate))

\* the node learns peers until one of them is lost
LostBootstrap ==
    /\ network.down = {}
    /\ Bootstrap

NextLost ==
    \/ LostBootstrap
    \/ PeerStops
    \/ LostPingAnswer
    \/ LostPropagation
    \/ LostInventorySync
    \/ LostSyncDelivery
    \/ LostPeerList
    \/ LostExchangeAnswer
    \/ LostExchangeFailure
    \/ LostReplacementAnswer

SpecLost == Init /\ [][NextLost]_vars



\* ------------------------------------- the overlay, rounds of peer exchange
\* The timer callback of startPeerExchange, with its single-flight guard.  The
\* node learns peers and connects to them while the rounds run.

\* the rounds that can be under way at once in the model
MaxRounds == 2

\* the peers held in the tables of the overlay: enough to meet both limits
MaxRoundKnown == 4

RoundStep(next) ==
    /\ Cardinality(DOMAIN next.nodes \cup DOMAIN next.activeConnections
                        \cup DOMAIN next.pings) <= MaxRoundKnown
    /\ PingsInFlight(next) <= MaxPings
    /\ network' = next
    /\ UNCHANGED <<ledgerVars, pairVars>>

\* index.mjs, server.listen callback: the answers of the bootstrap peers
RoundBootstrap ==
    \E responder \in PeerIds, peers \in PeerLists :
        /\ RoundStep(bootstrap(network, responder, peers))

\* a /ping request of tryEstablishConnection is answered
RoundPingAnswer ==
    \E peerId \in DOMAIN network.pings, outcome \in {"ok", "refused", "failed"} :
        /\ outcome = "ok" \/ peerId \in Unreliable
        /\ network.pings[peerId] > (IF peerId \in network.replacing THEN 1 ELSE 0)
        /\ RoundStep(PingAnswered(network, peerId, outcome))

\* the peers of the snapshot the loop does not skip
Askable(net, peers) ==
    {p \in peers : p \in DOMAIN net.activeConnections
                    => net.activeConnections[p].retries <= RetryLimit}

\* the finally block with the flag left as it is
roundEndsFlagKept(net) ==
    [net EXCEPT !.exchange.rounds = @ - 1,
                !.exchange.toAsk = {},
                !.exchange.needMoreInternalPeers = FALSE,
                !.exchange.needMoreExternalPeers = FALSE]

\* the callback returns or throws: the finally block
roundEnds(net) ==
    [net EXCEPT !.exchange.exchangeInProgress = FALSE,
                !.exchange.rounds = @ - 1,
                !.exchange.toAsk = {},
                !.exchange.needMoreInternalPeers = FALSE,
                !.exchange.needMoreExternalPeers = FALSE]

\* the loop after a peer was dealt with: the round ends on break or when no
\* peer is left to ask, otherwise it awaits the next /peers answer
roundContinues(net, rest, break) ==
    IF break \/ Askable(net, rest) = {} THEN roundEnds(net)
    ELSE [net EXCEPT !.exchange.toAsk = Askable(net, rest)]

\* the timer callback up to its first await
exchangeTick(net) ==
    IF net.exchange.exchangeInProgress
    THEN [net EXCEPT !.exchange.tick = "skipped"]
    ELSE LET peers == getActivePeers(net)
             needMoreInternalPeers ==
                 Cardinality(InternalOf(peers)) < MAX_INTERNAL_CONNECTIONS
             needMoreExternalPeers ==
                 Cardinality(ExternalOf(peers)) < MAX_EXTERNAL_CONNECTIONS
             entered == [net EXCEPT !.exchange.exchangeInProgress = TRUE,
                                    !.exchange.rounds = @ + 1]
         IN IF ~needMoreInternalPeers /\ ~needMoreExternalPeers
            THEN roundEnds([entered EXCEPT !.exchange.tick = "saturated"])
            ELSE roundContinues(
                     [entered EXCEPT
                         !.exchange.tick = "started",
                         !.exchange.needMoreInternalPeers = needMoreInternalPeers,
                         !.exchange.needMoreExternalPeers = needMoreExternalPeers],
                     peers, FALSE)

\* the 30 s timer of startPeerExchange fires
ExchangeTick ==
    /\ network.exchange.rounds < MaxRounds
    /\ RoundStep(exchangeTick(network))

\* the /peers request the round is waiting for is answered
RoundAnswer ==
    \E peer \in network.exchange.toAsk, remotePeers \in PeerLists :
        LET after == ExchangeAnswered(network, peer, remotePeers,
                                      network.exchange.needMoreInternalPeers,
                                      network.exchange.needMoreExternalPeers)
        IN RoundStep(roundContinues(after, network.exchange.toAsk \ {peer},
                                  BothLimitsReached(getActivePeers(after))))

\* the /peers request the round is waiting for throws
RoundFailure ==
    \E peer \in network.exchange.toAsk \cap Unreliable :
        \E candidate \in CandidateChoice(
                ReplacementCandidates(removePeer(network, peer), IsInternal(peer))) :
            RoundStep(roundContinues(ExchangeFailed(network, peer, candidate),
                                   network.exchange.toAsk \ {peer}, FALSE))

\* an exception leaves the loop of a round that is under way
RoundThrows ==
    /\ network.exchange.rounds > 0
    /\ RoundStep(roundEnds(network))

NextRound ==
    \/ RoundBootstrap
    \/ RoundPingAnswer
    \/ ExchangeTick
    \/ RoundAnswer
    \/ RoundFailure
    \/ RoundThrows

SpecRound == Init /\ [][NextRound]_vars

\* ---------------------------------------------- the overlay, with the clock
\* The stamps of the nodes records age: one round of propagatePeerList is one
\* period of 45 s gone by.  The node holds few peers so that a stamp can grow
\* older than PEER_TIMEOUT within the run.

\* the stamps are kept exact up to the first one older than PEER_TIMEOUT
MaxAge == PEER_TIMEOUT \div PEER_LIST_INTERVAL + 1

\* the peers held in the tables of the overlay while the clock is followed
MaxAgeKnown == 2

AgeStep(next) ==
    /\ Cardinality(DOMAIN next.nodes \cup DOMAIN next.activeConnections
                        \cup DOMAIN next.pings) <= MaxAgeKnown
    /\ PingsInFlight(next) <= MaxPings
    /\ network' = next
    /\ UNCHANGED <<ledgerVars, pairVars>>

\* a lower bound of Date.now() - lastSeen: the last round has just run
Aged(lastSeen) == lastSeen * PEER_LIST_INTERVAL

\* one period has gone by since the stamps of the nodes records were read
periodGoesBy(net) ==
    [net EXCEPT !.nodes =
        [id \in DOMAIN net.nodes |->
            [net.nodes[id] EXCEPT !.lastSeen = IF @ >= MaxAge THEN @ ELSE @ + 1]]]

\* cleanupPeers, line 681: the records that are older than PEER_TIMEOUT
\* whenever the timer fires within the period, and those that may be
SurelyOld(net) == {id \in DOMAIN net.nodes : Aged(net.nodes[id].lastSeen) > PEER_TIMEOUT}

PossiblyOld(net) == {id \in DOMAIN net.nodes : Elapsed(net.nodes[id].lastSeen) > PEER_TIMEOUT}

\* index.mjs, server.listen callback: the answers of the bootstrap peers
AgeBootstrap ==
    \E responder \in PeerIds, peers \in PeerLists :
        /\ AgeStep(bootstrap(network, responder, peers))

\* POST /register: a peer announces itself, for the first time or again
AgeRegister ==
    \E nodeId \in PeerIds :
        /\ AgeStep(addPeer(network, nodeId))

\* a /ping request of tryEstablishConnection is answered
AgePingAnswer ==
    \E peerId \in DOMAIN network.pings, outcome \in {"ok", "refused", "failed"} :
        /\ outcome = "ok" \/ peerId \in Unreliable
        /\ AgeStep(PingAnswered(network, peerId, outcome))

\* the 45 s timer of propagatePeerList, one period after it fired last; the
\* requests end within their 5 s
AgePeerListRound ==
    \E failed \in SUBSET (getActivePeers(network) \cap Unreliable) :
        /\ AgeStep(propagatePeerList(periodGoesBy(network),
                                     getActivePeers(network), failed))

\* the 30 s timer of cleanupPeers
AgeCleanup ==
    \E timedOut \in SUBSET PossiblyOld(network) :
        /\ SurelyOld(network) \subseteq timedOut
        /\ AgeStep(cleanupPeers(network, timedOut))

NextAge ==
    \/ AgeBootstrap
    \/ AgeRegister
    \/ AgePingAnswer
    \/ AgePeerListRound
    \/ AgeCleanup

SpecAge == Init /\ [][NextAge]_vars

\* ------------------------------------------------------ two nodes, N1 and N2
\* N1 is started standalone and owns the genesis block; N2 is started with N1
\* as its bootstrap peer.  Clients submit transactions to N1 and N1's miner
\* mines its pending pool.  N1 floods what it accepts to N2, and N2 runs its
\* inventory sync timer against N1.  What N2 accepts it floods back to N1,
\* which has seen every one of these messages: N1 answers "already_exists".

\* the transactions clients submit to N1
PairTxPool == {T3, T2}

MAX_TX_PER_BLOCK == 10

\* Array.sort by height: stable, a block without height counts as height 0
RECURSIVE InsertByHeight(_, _, _)
InsertByHeight(inv, sorted, block) ==
    IF sorted = <<>> THEN <<block>>
    ELSE IF MapGet(inv.blockHeights, sorted[Len(sorted)].hash, 0)
               <= MapGet(inv.blockHeights, block.hash, 0)
         THEN Append(sorted, block)
         ELSE Append(InsertByHeight(inv, SubSeq(sorted, 1, Len(sorted) - 1), block),
                     sorted[Len(sorted)])

RECURSIVE SortByHeight(_, _, _)
SortByHeight(inv, sorted, rest) ==
    IF rest = <<>> THEN sorted
    ELSE SortByHeight(inv, InsertByHeight(inv, sorted, Head(rest)), Tail(rest))

\* GET /getblocks without parameters
getAllBlocks(inv) == SortByHeight(inv, <<>>, inv.blocks)

\* the wall clock of the miner
Clock(inv) == Len(inv.blocks) + 2

\* the block built from the whole pending pool, however long
mineBlockUncapped(inv, nodeId) ==
    LET blocksData == getAllBlocks(inv)
        prevHash == IF Len(blocksData) > 0 THEN blocksData[Len(blocksData)].hash
                    ELSE ZeroHash
    IN MinedBlock(prevHash, nodeId, Clock(inv), inv.transactions)

\* mineBlock: the block the miner of nodeId builds on the node's inventory
mineBlock(inv, nodeId) ==
    LET pendingTxs == SubSeq(inv.transactions, 1,
                             IF Len(inv.transactions) > MAX_TX_PER_BLOCK
                             THEN MAX_TX_PER_BLOCK ELSE Len(inv.transactions))
        blocksData == getAllBlocks(inv)
        prevHash == IF Len(blocksData) > 0 THEN blocksData[Len(blocksData)].hash
                    ELSE ZeroHash
    IN MinedBlock(prevHash, nodeId, Clock(inv), pendingTxs)

\* one run of the miner: the blocks it posts to its node, none when
\* /inventory lists no pending transaction
minerRuns(inv, nodeId) ==
    IF Len(inv.transactions) = 0 THEN <<>> ELSE <<mineBlock(inv, nodeId)>>

\* the requests propagateBlock and propagateTransaction send to a peer
BlockMsg(block) == [path |-> "/block", body |-> block]

TxMsg(tx) == [path |-> "/inv", body |-> tx]

\* N1 floods to its active peer
Flood(lnk, flooded, msg) ==
    IF lnk.up /\ flooded # Null THEN [lnk EXCEPT !.inFlight = @ \cup {msg}]
    ELSE lnk

\* index.mjs, processing of the bootstrap answer: blocks, then transactions
RECURSIVE BootstrapBlocks(_, _)
BootstrapBlocks(inv, blocks) ==
    IF blocks = <<>> THEN inv
    ELSE BootstrapBlocks(addBlock(inv, Head(blocks)).inv, Tail(blocks))

RECURSIVE BootstrapTransactions(_, _)
BootstrapTransactions(inv, txs) ==
    IF txs = <<>> THEN inv
    ELSE BootstrapTransactions(
             IF TruthyNum(Head(txs).id) THEN addTransaction(inv, Head(txs)).inv ELSE inv,
             Tail(txs))

\* N2 starts: POST /register at N1 makes N2 a peer of N1 and returns N1's
\* blocks and pending transactions
PairBootstrap ==
    /\ ~link.up
    /\ Len(inventory.blocks) > 0
    /\ remote' = BootstrapTransactions(BootstrapBlocks(remote, inventory.blocks),
                                        inventory.transactions)
    /\ link' = [link EXCEPT !.up = TRUE]
    /\ UNCHANGED <<inventory, last, network>>

\* POST /inv at N1
PairSubmit ==
    \E tx \in PairTxPool :
        LET r == addTransaction(inventory, tx)
        IN /\ inventory' = r.inv
           /\ link' = Flood(link, r.flooded, TxMsg(tx))
           /\ UNCHANGED <<last, network, remote>>

\* the miner of N1 runs and posts its block to N1
PairMine ==
    /\ Len(inventory.transactions) > 0
    /\ Len(inventory.blocks) < MaxBlocks
    /\ LET block == mineBlock(inventory, Self)
           r == addBlock(inventory, block)
       IN /\ inventory' = r.inv
          /\ link' = Flood(link, r.flooded, BlockMsg(block))
    /\ UNCHANGED <<last, network, remote>>

\* a flooded request reaches N2
PairDeliver ==
    \E msg \in link.inFlight :
        /\ remote' = IF msg.path = "/block" THEN addBlock(remote, msg.body).inv
                      ELSE addTransaction(remote, msg.body).inv
        /\ link' = [link EXCEPT !.inFlight = @ \ {msg}]
        /\ UNCHANGED <<inventory, last, network>>

\* the 30 s timer of syncInventoryWithPeers at N2, answered by N1
PairInventorySync ==
    /\ link.up
    /\ remote' = SyncBlocks(SyncTransactions(remote, inventory.transactions),
                             inventory.blocks)
    /\ UNCHANGED <<inventory, last, network, link>>

NextPair ==
    \/ CreateGenesis
    \/ PairBootstrap
    \/ PairSubmit
    \/ PairMine
    \/ PairDeliver
    \/ PairInventorySync

SpecPair == Init /\ [][NextPair]_vars

\* ------------------------------------------- one node, a long pending pool
\* Clients submit more small payments of N1 than one block may carry, and
\* the miner of N1 runs against N1.

\* the payments submitted: one more than a block carries
MaxBulk == MAX_TX_PER_BLOCK + 1

\* the i-th payment submitted; the ids do not follow the order of submission
BulkTx(i) == Tx(200 + ((7 * i) % MaxBulk), "N1", "N2", 1)

\* POST /inv: the next payment arrives, or one that arrived before
BulkSubmit ==
    \E i \in 1..MaxBulk :
        LET r == addTransaction(inventory, BulkTx(i))
            arrived == {j \in 1..MaxBulk : BulkTx(j).id \in inventory.seenMessages}
        IN /\ i <= Cardinality(arrived) + 1
           /\ inventory' = r.inv
           /\ last' = [op |-> "addTransaction", id |-> BulkTx(i).id, ok |-> r.result]
           /\ UNCHANGED <<netVars, pairVars>>

\* the miner of N1 runs; the block it builds, if any, is posted to N1
MinerRun ==
    \E posted \in {minerRuns(inventory, Self)} :
        /\ Len(inventory.blocks) < MaxBlocks
        /\ IF posted = <<>>
           THEN /\ UNCHANGED inventory
                /\ last' = [op |-> "mineBlock", id |-> Null, ok |-> FALSE]
           ELSE \E r \in {addBlock(inventory, posted[1])} :
                    /\ inventory' = r.inv
                    /\ last' = [op |-> "mineBlock", id |-> posted[1].hash,
                                ok |-> r.result]
        /\ UNCHANGED <<netVars, pairVars>>

NextBulk ==
    \/ CreateGenesis
    \/ BulkSubmit
    \/ MinerRun

SpecBulk == Init /\ [][NextBulk]_vars

\* ------------------------------------------- one node, its miner and forks
\* Clients submit payments of N1 that N1 can afford one by one, the miner of
\* N1 runs against N1, and blocks of other nodes arrive.

\* the payments clients submit
MineTxPool == {T3, T8, T9, T10}

\* the payments that can be pending at once
MaxMinePending == 2

\* POST /inv
MineSubmit ==
    \E tx \in MineTxPool :
        LET r == addTransaction(inventory, tx)
        IN /\ Len(inventory.transactions) < MaxMinePending
           /\ inventory' = r.inv
           /\ last' = [op |-> "addTransaction", id |-> tx.id, ok |-> r.result]
           /\ UNCHANGED <<netVars, pairVars>>

NextMine ==
    \/ CreateGenesis
    \/ MineSubmit
    \/ MinerRun
    \/ AddBlock
    \/ SyncPeerBlocks

SpecMine == Init /\ [][NextMine]_vars

\* ------------------------------------------------------- views of the state
Stored == BlockKeys(inventory.blocks)

ChainHead == inventory.blockchainHead

HeightOf(hash) == MapGet(inventory.blockHeights, hash, 0)

HasHeight(hash) == hash \in DOMAIN inventory.blockHeights

MainChain == getMainChain(inventory)

\* ids of the transactions carried by the blocks of the main chain
MainChainTxIds ==
    UNION { {getBlock(inventory.blocks, h).transactions[i].id :
                i \in 1..Len(getBlock(inventory.blocks, h).transactions)} :
            h \in Range(MainChain) }

BalanceOf(n) == MapGet(inventory.balances, n, 0)

BalanceSum == SumOver(inventory.balances, DOMAIN inventory.balances)

\* genesis blocks taken in by createGenesisBlock or addBlock
AcceptedGenesis ==
    {h \in Stored : getBlock(inventory.blocks, h).isGenesis /\ HasHeight(h)}

\* the ledger obtained from the genesis endowment and the transactions of the
\* blocks of a chain, in order, each once
ReplayedBalances(inv, chain) ==
    LET genesis == getBlock(inv.blocks, chain[1])
        start == [EmptyInventory EXCEPT
                     !.blocks = inv.blocks,
                     !.balances = MapSet(<<>>, genesis.creator, InitialBalance)]
    IN ApplyBlocks(start, Tail(chain)).balances

SameLedger(a, b) == \A n \in NodeIds : MapGet(a, n, 0) = MapGet(b, n, 0)

\* ------------------------------------------------------------------ claims

\* C1: basic transfer.  On a standalone node whose genesis endowed N1 with
\* 100, once tx1 (N1 -> N2, 30) was taken in and the block A1 mined on the
\* genesis with exactly tx1 was accepted by addBlock, N1 holds 70, N2 holds 30,
\* the pending pool is empty and the head has height 1.
C1_BasicTransfer ==
    ( /\ last = [op |-> "addBlock", id |-> A1.hash, ok |-> TRUE]
      /\ inventory.blocks = <<G1, A1>>
      /\ HasHeight(G1.hash)
      /\ inventory.seenMessages = {G1.hash, A1.hash, T1.id} )
    => ( /\ BalanceOf("N1") = 70
         /\ BalanceOf("N2") = 30
         /\ inventory.transactions = <<>>
         /\ HeightOf(ChainHead) = 1 )

\* C2: the balances always sum to 100 times the number of genesis blocks the
\* node has accepted.
C2_BalanceSum ==
    BalanceSum = InitialBalance * Cardinality(AcceptedGenesis)

\* C3: reorg law, longer chain.  When addBlock accepts a block whose height
\* exceeds that of the current head and whose chain goes back to a genesis
\* block, that block becomes the head and the balances are those of the
\* genesis endowment followed by the transactions of its chain, each once.
C3_Step ==
    \A block \in BlockPool :
        LET hash == IdentityHash(block, calculateBlockHash(block))
            chain == getChainToBlock(inventory', hash)
        IN ( /\ last' = [op |-> "addBlock", id |-> hash, ok |-> TRUE]
             /\ hash \notin inventory.seenMessages
             /\ ~block.isGenesis
             /\ ChainHead # Null
             /\ MapGet(inventory'.blockHeights, hash, 0) > HeightOf(ChainHead)
             /\ getBlock(inventory'.blocks, chain[1]).isGenesis
             /\ \A i \in 1..Len(chain) : chain[i] \in DOMAIN inventory'.blockHeights )
           => ( /\ inventory'.blockchainHead = hash
                /\ SameLedger(inventory'.balances, ReplayedBalances(inventory', chain)) )

C3_LongerChainReorg == [][C3_Step]_vars

\* C4: equal-height fork.  (a) A block accepted on top of the current head
\* becomes the head.  (b) When the head is a block s and addBlock accepts a
\* sibling of s (same stored parent, same height), the head is afterwards the
\* one of the two with the smaller hash; the other one stays stored and is not
\* on the main chain.
C4_Step ==
    \A block \in BlockPool :
        LET hash == IdentityHash(block, calculateBlockHash(block))
            after == inventory'
            accepted == /\ last' = [op |-> "addBlock", id |-> hash, ok |-> TRUE]
                        /\ hash \notin inventory.seenMessages
                        /\ ~block.isGenesis
                        /\ ChainHead # Null
            winner == IF hash < ChainHead THEN hash ELSE ChainHead
            loser == IF hash < ChainHead THEN ChainHead ELSE hash
        IN /\ (accepted /\ block.previousHash = ChainHead)
              => after.blockchainHead = hash
           /\ ( /\ accepted
                /\ ~getBlock(inventory.blocks, ChainHead).isGenesis
                /\ getBlock(inventory.blocks, ChainHead).previousHash = block.previousHash
                /\ block.previousHash \in Stored
                /\ MapGet(after.blockHeights, hash, 0) = HeightOf(ChainHead) )
              => ( /\ after.blockchainHead = winner
                   /\ {winner, loser} \subseteq BlockKeys(after.blocks)
                   /\ loser \notin Range(getMainChain(after)) )

C4_EqualHeightFork == [][C4_Step]_vars

\* C4 witness: the sibling that arrived second has the smaller hash and took
\* the head over from the first, which is still stored
C4_Witness ==
    /\ last.op = "addBlock" /\ last.ok
    /\ ChainHead = last.id
    /\ \E s \in Stored :
          /\ s > ChainHead
          /\ ~getBlock(inventory.blocks, s).isGenesis
          /\ ~getBlock(inventory.blocks, ChainHead).isGenesis
          /\ getBlock(inventory.blocks, s).previousHash
                = getBlock(inventory.blocks, ChainHead).previousHash
          /\ getBlock(inventory.blocks, s).previousHash \in Stored
          /\ HasHeight(s) /\ HeightOf(s) = HeightOf(ChainHead)
          /\ s \notin Range(MainChain)

\* C5: no transaction id is at once in the pending pool and in a block of the
\* main chain, in the states an addBlock or addTransaction call leaves.
C5_PendingDisjointFromChain ==
    last.op \in {"addBlock", "addTransaction"}
    => PendingIds(inventory.transactions) \cap MainChainTxIds = {}

\* C6: whenever a block is stored, blockchainHead is set and is a stored block.
C6_HeadIsStored ==
    Len(inventory.blocks) > 0 => (ChainHead # Null /\ ChainHead \in Stored)

\* C7: every stored non-genesis block whose parent is stored has the height of
\* its parent plus one, whatever order the blocks arrived in (stated for the
\* blocks addBlock took in, which are the ones that have a height).
C7_HeightIsParentPlusOne ==
    \A h \in Stored :
        LET b == getBlock(inventory.blocks, h)
        IN (~b.isGenesis /\ b.previousHash \in Stored
              /\ HasHeight(h) /\ HasHeight(b.previousHash))
           => inventory.blockHeights[h] = inventory.blockHeights[b.previousHash] + 1

\* C8: every stored non-genesis block has a recomputed hash that meets the
\* difficulty.
C8_StoredMeetDifficulty ==
    \A h \in Stored :
        LET b == getBlock(inventory.blocks, h)
        IN ~b.isGenesis => MeetsDifficulty(calculateBlockHash(b))

\* C9: a block accepted by addBlock has a declared hash equal to the hash
\* recomputed from its contents and nonce (any other block is rejected).
C9_MismatchRejected ==
    (last.op = "addBlock" /\ last.ok)
    => calculateBlockHash(getBlock(inventory.blocks, last.id)) = last.id

\* C10: in every reachable state of the overlay, whatever the interleaving of
\* bootstrap, /register, /sync, peer exchange, replacement searches and /ping
\* answers, activeConnections holds at most MAX_INTERNAL_CONNECTIONS peers of
\* the node's own group and at most MAX_EXTERNAL_CONNECTIONS peers of other
\* groups.
C10_ConnectionCaps ==
    /\ Cardinality(InternalOf(DOMAIN network.activeConnections))
           <= MAX_INTERNAL_CONNECTIONS
    /\ Cardinality(ExternalOf(DOMAIN network.activeConnections))
           <= MAX_EXTERNAL_CONNECTIONS

\* the internal limit is met while a /ping to one more internal peer, sent
\* when there was room, is still in flight
C10_Witness ==
    /\ Cardinality(InternalOf(DOMAIN network.activeConnections))
           = MAX_INTERNAL_CONNECTIONS
    /\ \E p \in DOMAIN network.pings :
           IsInternal(p) /\ p \notin DOMAIN network.activeConnections

\* C11: a valid transaction the node has not seen, submitted twice to
\* addTransaction, is answered "added" and then "already_exists", and the
\* pending pool is one larger after the two calls than before them.
C11_Step ==
    \A tx \in TxPool :
        LET second == addTransaction(inventory', tx)
        IN ( /\ validateTransaction(inventory, tx)
             /\ tx.id \notin inventory.seenMessages
             /\ last'.op = "addTransaction" /\ last'.id = tx.id )
           => ( /\ StatusOf(last'.ok) = "added"
                /\ StatusOf(second.result) = "already_exists"
                /\ Len(second.inv.transactions) = Len(inventory.transactions) + 1 )

C11_SubmitTwice == [][C11_Step]_vars

\* a transaction was added; a second submission is answered "already_exists"
C11_Witness ==
    \E tx \in TxPool :
        /\ last = [op |-> "addTransaction", id |-> tx.id, ok |-> TRUE]
        /\ tx.id \in PendingIds(inventory.transactions)
        /\ StatusOf(addTransaction(inventory, tx).result) = "already_exists"

\* C12, as the specification states it: the same block submitted twice to
\* addBlock gets the same result both times, and the second call changes
\* neither the balances nor the head.
C12_SameResultStep ==
    \A block \in BlockPool :
        LET hash == IdentityHash(block, calculateBlockHash(block))
            second == addBlock(inventory', block)
        IN (last'.op = "addBlock" /\ last'.id = hash)
           => ( /\ second.result = last'.ok
                /\ second.inv.balances = inventory'.balances
                /\ second.inv.blockchainHead = inventory'.blockchainHead )

C12_SameResultTwice == [][C12_SameResultStep]_vars

\* C12, amended: the second submission of a block is answered
\* "already_exists" whether the first was accepted ("added") or turned down,
\* it floods nothing and it changes nothing: balances, head, blocks, heights,
\* pending pool and seen set are those the first call left.
C12_Step ==
    \A block \in BlockPool :
        LET hash == IdentityHash(block, calculateBlockHash(block))
            second == addBlock(inventory', block)
        IN (last'.op = "addBlock" /\ last'.id = hash)
           => ( /\ StatusOf(second.result) = "already_exists"
                /\ second.flooded = Null
                /\ second.inv = inventory' )

C12_SecondIsNoOp == [][C12_Step]_vars

\* a block with transactions was accepted and is the head; submitted again it
\* is turned down
C12_Witness ==
    \E block \in BlockPool :
        /\ ~block.isGenesis /\ Len(block.transactions) > 0
        /\ last = [op |-> "addBlock", id |-> block.hash, ok |-> TRUE]
        /\ ChainHead = block.hash
        /\ ~addBlock(inventory, block).result

\* C13: overdraft rejection.  addTransaction of a transaction whose amount
\* exceeds the sender's balance returns false, leaves the pending pool, the
\* balances, the seen set and the head (the whole inventory) unchanged, and
\* nothing is propagated.
C13_Step ==
    \A tx \in TxPool :
        ( /\ tx.amount > BalanceOf(tx.sender)
          /\ last'.op = "addTransaction" /\ last'.id = tx.id )
        => ( /\ ~last'.ok
             /\ inventory' = inventory
             /\ addTransaction(inventory, tx).flooded = Null )

C13_OverdraftRejected == [][C13_Step]_vars

\* a sender holding coins asked for more than it holds, with an id never seen
C13_Witness ==
    \E tx \in TxPool :
        /\ last = [op |-> "addTransaction", id |-> tx.id, ok |-> FALSE]
        /\ BalanceOf(tx.sender) > 0
        /\ tx.amount > BalanceOf(tx.sender)
        /\ tx.id \notin inventory.seenMessages

\* C14: genesis at startup.  A node that holds no block and runs the startup
\* of a node without bootstrap peers then holds exactly one block: a genesis
\* block created by the node, of height 0, which is the head; the node has
\* balance 100 and there is no other balance; a second call of
\* createGenesisBlock, at any later time, returns nothing and changes nothing.
C14_Step ==
    /\ (last'.op = "createGenesisBlock" /\ Len(inventory.blocks) > 0)
       => (~last'.ok /\ inventory' = inventory)
    /\ (last'.op = "createGenesisBlock" /\ Len(inventory.blocks) = 0)
       => LET after == inventory'
       IN /\ last'.ok
          /\ Len(after.blocks) = 1
          /\ after.blocks[1].isGenesis
          /\ after.blocks[1].creator = Self
          /\ after.blockHeights = MapSet(<<>>, after.blocks[1].hash, 0)
          /\ after.blockchainHead = after.blocks[1].hash
          /\ after.balances = MapSet(<<>>, Self, InitialBalance)
          /\ \A timestamp \in {1, 2} :
                LET second == createGenesisBlock(after, Self, timestamp)
                IN ~second.result /\ second.inv = after

C14_GenesisAtStartup == [][C14_Step]_vars

\* the node has just created its genesis block and a second call is refused
C14_Witness ==
    /\ last = [op |-> "createGenesisBlock", id |-> G1.hash, ok |-> TRUE]
    /\ inventory.blocks = <<G1>>
    /\ ~createGenesisBlock(inventory, Self, 2).result

\* C15: peer eviction.  An active peer that fails every request is taken out
\* of activeConnections, and then a known peer of the same group type that is
\* not active and answers its /ping takes its place: once the peer is out and
\* no /ping and no replacement search is under way, no such peer is left
\* waiting while the limit of its group type leaves room for it.
C15_EvictedPeerReplaced ==
    \A peer \in network.down :
        ( /\ peer \notin DOMAIN network.activeConnections
          /\ DOMAIN network.pings = {}
          /\ network.replacing = {} )
        => \A k \in Reachable(network, IsInternal(peer)) :
               LimitReached(getActivePeers(network), k)

\* C16: propagation.  N1 owns the genesis block and N2 bootstrapped from N1.
\* Once N1 has accepted a mined block containing tx1 (N1 -> N2, 10), the only
\* transaction submitted, and every flooded request has been delivered, N2's
\* blockchainHead equals N1's and N2's balance at N2 is 10.
C16_Propagation ==
    ( /\ link.up
      /\ link.inFlight = {}
      /\ Len(inventory.blocks) = 2
      /\ inventory.blocks[1] = GenesisBlockOf("N1", 1)
      /\ inventory.blocks[2].transactions = <<T3>>
      /\ inventory.seenMessages
            = {inventory.blocks[1].hash, inventory.blocks[2].hash, T3.id} )
    => ( /\ remote.blockchainHead = inventory.blockchainHead
         /\ MapGet(remote.balances, "N2", 0) = 10 )

\* C17: head convergence.  Two nodes whose block stores hold the same set of
\* blocks have the same blockchainHead, whatever order the blocks arrived in
\* and whichever path delivered them (flooded /block, bootstrap answer,
\* periodic inventory sync).
C17_HeadConvergence ==
    BlockKeys(inventory.blocks) = BlockKeys(remote.blocks)
    => remote.blockchainHead = inventory.blockchainHead

\* C18: the seen set only grows.  No step of the node (addBlock with or
\* without a reorganization, addTransaction, createGenesisBlock, inventory
\* sync) removes an element from seenMessages.
C18_Step == inventory.seenMessages \subseteq inventory'.seenMessages

C18_SeenOnlyGrows == [][C18_Step]_vars

\* C18 witness: a block took the head over from its sibling in a
\* reorganization, a mined transaction has left the pending pool, and the
\* hashes of all stored blocks and the id of that transaction are still seen
C18_Witness ==
    /\ last.op = "addBlock" /\ last.ok
    /\ ChainHead = last.id
    /\ \E s \in Stored :
          /\ ~getBlock(inventory.blocks, s).isGenesis
          /\ HasHeight(s) /\ HeightOf(s) = HeightOf(ChainHead)
          /\ s \notin Range(MainChain)
    /\ Stored \subseteq inventory.seenMessages
    /\ \E id \in MainChainTxIds :
          id \in inventory.seenMessages /\ id \notin PendingIds(inventory.transactions)

\* C19: when a reorganization abandons a block of the old chain, every
\* transaction of that block that is not contained in a block of the new
\* chain is in the pending pool once the reorganization completes.
C19_Step ==
    LET oldChain == getChainToBlock(inventory, ChainHead)
        newChain == getChainToBlock(inventory', inventory'.blockchainHead)
        abandoned == Range(oldChain) \ Range(newChain)
        TxIdsOf(h) == {getBlock(inventory'.blocks, h).transactions[i].id :
                          i \in 1..Len(getBlock(inventory'.blocks, h).transactions)}
        newChainTxIds == UNION {TxIdsOf(h) : h \in Range(newChain)}
    IN ( /\ ChainHead # Null
         /\ inventory'.blockchainHead # ChainHead
         /\ last'.op = "addBlock" )
       => \A h \in abandoned :
              TxIdsOf(h) \ newChainTxIds \subseteq PendingIds(inventory'.transactions)

C19_AbandonedRestored == [][C19_Step]_vars

\* C20: a non-genesis block in which some transaction has a non-positive
\* amount, or whose sender lacks the balance at that transaction's position
\* when the block's transactions are simulated in order on the node's
\* balances, is rejected by addBlock: the inventory (blocks, heights, seen
\* set, balances, pending pool, head) is unchanged and nothing is flooded.
C20_Step ==
    \A block \in BlockPool :
        LET hash == IdentityHash(block, calculateBlockHash(block))
            txs == block.transactions
            \* what n holds before the transaction at position k
            Held(n, k) ==
                MapGet(inventory.balances, n, 0)
                + SumOver([i \in 1..(k - 1) |->
                              (IF txs[i].receiver = n THEN txs[i].amount ELSE 0)
                              - (IF txs[i].sender = n THEN txs[i].amount ELSE 0)],
                          1..(k - 1))
            faulty == \E k \in 1..Len(txs) :
                          txs[k].amount <= 0 \/ Held(txs[k].sender, k) < txs[k].amount
        IN ( /\ last'.op = "addBlock" /\ last'.id = hash
             /\ ~block.isGenesis
             /\ faulty )
           => ( /\ ~last'.ok
                /\ inventory' = inventory
                /\ addBlock(inventory, block).flooded = Null )

C20_FaultyBlockRejected == [][C20_Step]_vars

\* C20 witness: the block Y1 reached a node on which N1 holds 100, enough for
\* either of its two payments of 60 and too little for both; it was new to
\* the node, it met the difficulty and it was rejected
C20_Witness ==
    /\ last = [op |-> "addBlock", id |-> Y1.hash, ok |-> FALSE]
    /\ Y1.hash \notin inventory.seenMessages
    /\ MeetsDifficulty(calculateBlockHash(Y1))
    /\ BalanceOf("N1") = 100
    /\ Y1.previousHash = ChainHead

\* C21: addTransaction rejects every transaction that lacks a required field
\* (id, sender, receiver or amount) or whose amount is not strictly positive:
\* pending pool, seen set and balances are unchanged and nothing is flooded.
C21_Step ==
    \A tx \in TxPool :
        ( /\ last'.op = "addTransaction" /\ last'.id = tx.id
          /\ \/ ~TruthyNum(tx.id) \/ ~TruthyStr(tx.sender) \/ ~TruthyStr(tx.receiver)
             \/ ~TruthyNum(tx.amount) \/ tx.amount <= 0 )
        => ( /\ ~last'.ok
             /\ inventory'.transactions = inventory.transactions
             /\ inventory'.seenMessages = inventory.seenMessages
             /\ inventory'.balances = inventory.balances
             /\ addTransaction(inventory, tx).flooded = Null )

C21_MalformedRejected == [][C21_Step]_vars

\* C22: POST /inv and POST /block answer "already_exists" only when the
\* submitted transaction id or block hash was already in the seen set; a
\* submission turned down by validation is not answered "already_exists".
C22_Step ==
    /\ \A tx \in TxPool :
          ( /\ last'.op = "addTransaction" /\ last'.id = tx.id
            /\ StatusOf(last'.ok) = "already_exists" )
          => tx.id \in inventory.seenMessages
    /\ \A block \in BlockPool :
          ( /\ last'.op = "addBlock"
            /\ last'.id = IdentityHash(block, calculateBlockHash(block))
            /\ StatusOf(last'.ok) = "already_exists" )
          => \/ IdentityHash(block, calculateBlockHash(block)) \in inventory.seenMessages
             \/ calculateBlockHash(block) \in inventory.seenMessages

C22_AlreadyExistsOnlyIfSeen == [][C22_Step]_vars

\* C23: addBlock takes a block flagged isGenesis in (stores it, makes it the
\* head, endows its creator) only when the node has no genesis block yet;
\* once a genesis block exists, a further, different genesis block changes
\* neither blockchainHead nor the balances.
C23_Step ==
    \A block \in BlockPool :
        LET hash == IdentityHash(block, calculateBlockHash(block))
        IN ( /\ last'.op = "addBlock" /\ last'.id = hash
             /\ block.isGenesis
             /\ hash \notin Stored
             /\ \E h \in Stored : getBlock(inventory.blocks, h).isGenesis )
           => ( /\ inventory'.blockchainHead = ChainHead
                /\ inventory'.balances = inventory.balances )

C23_OneGenesis == [][C23_Step]_vars

\* C24: a block whose previousHash is not in the block store when it arrives
\* is stored as an orphan with height 1 and does not become blockchainHead
\* as a result of that addBlock call.
C24_Step ==
    \A block \in BlockPool :
        LET hash == IdentityHash(block, calculateBlockHash(block))
        IN ( /\ last' = [op |-> "addBlock", id |-> hash, ok |-> TRUE]
             /\ hash \notin inventory.seenMessages
             /\ ~block.isGenesis
             /\ block.previousHash \notin Stored )
           => ( /\ hash \in BlockKeys(inventory'.blocks)
                /\ MapGet(inventory'.blockHeights, hash, 0) = 1
                /\ inventory'.blockchainHead # hash )

C24_OrphanNotHead == [][C24_Step]_vars

\* C25: in every state with a head, getMainChain() starts with a genesis
\* block, ends with blockchainHead, and each of its blocks names the block
\* before it as previousHash.
C25_MainChainLinked ==
    ChainHead # Null
    => ( /\ Len(MainChain) > 0
         /\ getBlock(inventory.blocks, MainChain[1]).isGenesis
         /\ MainChain[Len(MainChain)] = ChainHead
         /\ \A i \in 2..Len(MainChain) :
               getBlock(inventory.blocks, MainChain[i]).previousHash = MainChain[i - 1] )

\* C26: block validation rejects a block whose merkleRoot field does not
\* equal the Merkle root recomputed from the transactions it carries.
C26_Step ==
    \A block \in BlockPool :
        ( /\ last'.op = "addBlock"
          /\ last'.id = IdentityHash(block, calculateBlockHash(block))
          /\ ~block.isGenesis
          /\ block.merkleRoot # getMerkleRoot(block.transactions) )
        => ( /\ ~last'.ok
             /\ inventory' = inventory )

C26_MerkleRootChecked == [][C26_Step]_vars

\* C27: when a block or transaction send to an active peer fails, the peer's
\* retries counter is incremented, one retry follows about 5 s later, and if
\* that retry fails too or retries has reached 3 the peer is evicted from the
\* active set.  The peer of the scenario fails every request, so once the
\* send has failed and its retry is over the peer is evicted.
C27_Step ==
    \A peer \in getActivePeers(network) \cap network.down :
        network' = PropagationAnswered(network, peer, FALSE)
        => peer \notin DOMAIN network'.activeConnections

C27_FailedSendEvicts == [][C27_Step]_vars

\* the flag is set exactly while a round runs, and a round that runs awaits
\* a /peers answer
C28_Flag ==
    /\ network.exchange.rounds <= 1
    /\ network.exchange.exchangeInProgress <=> (network.exchange.rounds = 1)
    /\ network.exchange.exchangeInProgress <=> (network.exchange.toAsk # {})

\* a tick that finds the flag set changes nothing (but the record of the tick)
C28_Step ==
    ( /\ network.exchange.exchangeInProgress
      /\ network'.exchange.tick = "skipped"
      /\ network.exchange.tick # "skipped" )
    => network' = [network EXCEPT !.exchange.tick = "skipped"]

\* C28: at most one peer-exchange round runs at a time: a tick that fires
\* while a round is still awaiting an answer does nothing, and the
\* in-progress flag is cleared when a round ends by any path (normal end,
\* early return with both caps met, exception), so a later tick finds it
\* clear.
C28_SingleFlight == []C28_Flag /\ [][C28_Step]_vars

\* C28 witness: a tick fired while a round was awaiting a /peers answer and
\* was skipped; the round is still the only one
C28_Witness ==
    /\ network.exchange.tick = "skipped"
    /\ network.exchange.exchangeInProgress
    /\ network.exchange.rounds = 1
    /\ network.exchange.toAsk # {}

\* C29: flooding with dedup.  A step of the node hands a transaction id or a
\* block hash to propagateTransaction or propagateBlock only if the id was not
\* in seenMessages before the step, and the id is in seenMessages after it; no
\* step takes an id out of seenMessages; and in every state a transaction or a
\* block whose id is in seenMessages, received again, is not flooded.  So an
\* id is flooded at most once, however often it is received.
C29_Step ==
    /\ inventory.seenMessages \subseteq inventory'.seenMessages
    /\ \A tx \in TxPool :
          LET r == addTransaction(inventory, tx)
          IN ( /\ last'.op = "addTransaction" /\ last'.id = tx.id
               /\ inventory' = r.inv
               /\ r.flooded # Null )
             => ( /\ r.flooded = tx.id
                  /\ tx.id \notin inventory.seenMessages
                  /\ tx.id \in inventory'.seenMessages )
    /\ \A block \in BlockPool :
          LET r == addBlock(inventory, block)
          IN ( /\ last'.op = "addBlock"
               /\ last'.id = IdentityHash(block, calculateBlockHash(block))
               /\ inventory' = r.inv
               /\ r.flooded # Null )
             => ( /\ r.flooded = last'.id
                  /\ r.flooded \notin inventory.seenMessages
                  /\ r.flooded \in inventory'.seenMessages )

C29_SeenNotFlooded ==
    /\ \A tx \in TxPool :
          tx.id \in inventory.seenMessages
              => addTransaction(inventory, tx).flooded = Null
    /\ \A block \in BlockPool :
          IdentityHash(block, calculateBlockHash(block)) \in inventory.seenMessages
              => addBlock(inventory, block).flooded = Null

C29_FloodedOnce == []C29_SeenNotFlooded /\ [][C29_Step]_vars

\* C29 witness: a block the node accepted through addBlock and flooded
\* earlier (it is stored with a height, which the inventory sync does not
\* give, and it is not the node's own genesis block) was received again and
\* not flooded
C29_Witness ==
    /\ last.op = "addBlock" /\ ~last.ok
    /\ last.id \in inventory.seenMessages
    /\ last.id \in BlockKeys(inventory.blocks)
    /\ last.id \in DOMAIN inventory.blockHeights
    /\ last.id # GenesisBlockOf(Self, 1).hash

\* C30: cleanupPeers removes a peer exactly when there has been no successful
\* contact with it for longer than PEER_TIMEOUT.  In every run of cleanupPeers
\* an active peer whose active-connection lastSeen was refreshed within
\* PEER_TIMEOUT (its requests keep succeeding) stays in both tables.
C30_Step ==
    \A timedOut \in SUBSET PossiblyOld(network) :
        ( /\ SurelyOld(network) \subseteq timedOut
          /\ network' = cleanupPeers(network, timedOut) )
        => \A peer \in getActivePeers(network) :
              /\ peer \in DOMAIN network'.activeConnections
              /\ peer \in DOMAIN network'.nodes

C30_CleanupByContact == [][C30_Step]_vars

\* C31: mineBlock builds its block from the first min(10, n) transactions of
\* the n in the pending pool, in the order of the pool, with count equal to
\* the number of transactions carried; with an empty pool the miner builds
\* and posts nothing and its run leaves the node as it was.
C31_Built ==
    LET pending == inventory.transactions
        n == Len(pending)
        k == IF n < 10 THEN n ELSE 10
        posted == minerRuns(inventory, Self)
    IN IF n = 0 THEN posted = <<>>
       ELSE /\ Len(posted) = 1
            /\ posted[1].transactions = [i \in 1..k |-> pending[i]]
            /\ posted[1].count = Len(posted[1].transactions)

C31_Step ==
    ( /\ last'.op = "mineBlock"
      /\ last' # last )
    => IF inventory.transactions = <<>>
       THEN inventory' = inventory /\ last'.id = Null
       ELSE last'.ok =>
              \E b \in 1..Len(inventory'.blocks) :
                 LET block == inventory'.blocks[b]
                     n == Len(inventory.transactions)
                     k == IF n < 10 THEN n ELSE 10
                 IN /\ block.hash = last'.id
                    /\ block.transactions = [i \in 1..k |-> inventory.transactions[i]]
                    /\ block.count = k

C31_FirstTenMined == []C31_Built /\ [][C31_Step]_vars

\* C31 witness: eleven payments were pending, the miner ran, and the block
\* the node stored carries ten of them; the eleventh is still pending
C31_Witness ==
    /\ last.op = "mineBlock" /\ last.ok
    /\ Len(inventory.transactions) = 1
    /\ \E b \in 1..Len(inventory.blocks) :
          /\ inventory.blocks[b].hash = last.id
          /\ inventory.blocks[b].count = 10
          /\ Len(inventory.blocks[b].transactions) = 10

\* C32: addTransaction accepts an unseen transaction with sender, receiver
\* and a positive amount exactly when the sender's balance in the ledger is
\* at least the amount, whatever is pending; an accepted transaction is in
\* the pending pool afterwards.
C32_Step ==
    \A tx \in MineTxPool :
        ( /\ last'.op = "addTransaction" /\ last'.id = tx.id
          /\ tx.id \notin inventory.seenMessages
          /\ tx.sender # "" /\ tx.receiver # "" /\ tx.amount > 0 )
        => LET balance == IF tx.sender \in DOMAIN inventory.balances
                          THEN inventory.balances[tx.sender] ELSE 0
           IN /\ last'.ok <=> (balance >= tx.amount)
              /\ last'.ok => \E i \in 1..Len(inventory'.transactions) :
                                 inventory'.transactions[i] = tx

C32_CurrentBalanceOnly == [][C32_Step]_vars

\* C32 witness: two payments of one sender are pending whose amounts
\* together exceed the sender's balance; the second was just accepted
C32_Witness ==
    /\ last.op = "addTransaction" /\ last.ok
    /\ Len(inventory.transactions) = 2
    /\ inventory.transactions[1].sender = inventory.transactions[2].sender
    /\ inventory.transactions[2].id = last.id
    /\ inventory.transactions[1].amount + inventory.transactions[2].amount
          > inventory.balances[inventory.transactions[1].sender]

\* C33: every transaction that enters the pending pool, by whichever path
\* (POST /inv, bootstrap inventory, inventory sync), passes transaction
\* validation at that moment: sender, receiver and amount present, amount > 0,
\* and the sender's balance at least the amount.
C33_Step ==
    \A i \in 1..Len(inventory'.transactions) :
        LET tx == inventory'.transactions[i]
            balance == IF tx.sender \in DOMAIN inventory.balances
                       THEN inventory.balances[tx.sender] ELSE 0
        IN tx.id \notin PendingIds(inventory.transactions)
           => /\ tx.sender # "" /\ tx.receiver # ""
              /\ tx.amount > 0
              /\ balance >= tx.amount

C33_PendingWereValid == [][C33_Step]_vars

\* C34: every peer in the active-connection table is in the known-peer
\* table, in every reachable state, also when the peer was removed while a
\* /ping to it was in flight.
C34_ActiveAreKnown ==
    DOMAIN network.activeConnections \subseteq DOMAIN network.nodes

\* C35: every hash that is a key of blocks has an entry in blockHeights: no
\* block is stored and marked seen without a height being assigned to it.
C35_StoredHaveHeight ==
    \A i \in 1..Len(inventory.blocks) :
        inventory.blocks[i].hash \in inventory.seenMessages
            => inventory.blocks[i].hash \in DOMAIN inventory.blockHeights

\* C36: after a createGenesisBlock, addTransaction or addBlock call has
\* completed no balance is negative: an accepted block never leaves a sender
\* with less than zero coins.  (A run of the miner ends in an addBlock call.)
C36_Step ==
    last'.op \in {"createGenesisBlock", "addTransaction", "addBlock", "mineBlock"}
        => \A n \in DOMAIN inventory'.balances : inventory'.balances[n] >= 0

C36_NoNegativeBalance == [][C36_Step]_vars

\* C37: roll-back is the exact inverse of application.  For every block the
\* node stores, applying its transactions to the current balances with
\* processBlockTransactions and rolling them back with the loop of
\* handleChainReorganization gives every node the balance it had, also when
\* a transaction's sender is its receiver.
C37_RollbackInverts ==
    \A i \in 1..Len(inventory.blocks) :
        LET txs == inventory.blocks[i].transactions
            applied == processBlockTransactions(inventory, txs)
            undone == RollbackTransactions(applied, txs)
            Balance(inv, n) == IF n \in DOMAIN inv.balances THEN inv.balances[n] ELSE 0
        IN \A n \in NodeIds : Balance(undone, n) = Balance(inventory, n)

\* C38: the height of blockchainHead never decreases over addBlock calls,
\* whatever blocks (regular, orphan, flagged genesis) are submitted.  A node
\* without head counts as below height 0.
C38_Step ==
    LET Height(inv) == IF inv.blockchainHead = Null THEN 0 - 1
                       ELSE IF inv.blockchainHead \in DOMAIN inv.blockHeights
                            THEN inv.blockHeights[inv.blockchainHead] ELSE 0
    IN last'.op = "addBlock" => Height(inventory') >= Height(inventory)

C38_HeadHeightMonotone == [][C38_Step]_vars

\* C39: on a node that has a head, the block mineBlock builds when it is
\* given no previousHash has previousHash equal to the node's blockchainHead,
\* also when several stored blocks share the maximal height or some stored
\* blocks have no height.
C39_MinesOnHead ==
    LET posted == minerRuns(inventory, Self)
    IN ( /\ inventory.blockchainHead # Null
         /\ posted # <<>> )
       => posted[1].previousHash = inventory.blockchainHead

\* C40: the pending pool drains.  The miner builds its block from the node's
\* state alone (the last block of the node's answer and the first pending
\* transactions), so a run that leaves the node as it was is repeated by
\* every later run while nothing else is submitted.  For repeated runs to
\* empty the pool, no run on a non-empty pool may leave the node as it was
\* (a mined block whose hash the node has seen is set aside: with SHA-256 no
\* two blocks share a hash, with the short hash of the model they may).
C40_Step ==
    ( /\ last'.op = "mineBlock"
      /\ inventory.transactions # <<>>
      /\ last'.id \notin inventory.seenMessages )
        => inventory' # inventory

C40_PoolDrains == [][C40_Step]_vars

====
